---- MODULE Spec2Model ----
(***************************************************************************)
(* Intake scheduling and reminder engine of takingPills (src/main.py).     *)
(*                                                                         *)
(* The bot runs on one asyncio event loop.  db_query is a blocking call,   *)
(* so a handler runs atomically from one `await` on the network to the     *)
(* next.  Every user handler does all of its store reads and writes before *)
(* its first await, hence it is one action.  The scheduling tick is        *)
(* suspended at `await bot.send_message`; it is a process whose position   *)
(* and local variables (now_utc, the rows / meds snapshots, today_local,   *)
(* the intake read before the send) are kept in `tick`.                    *)
(*                                                                         *)
(* Time is an integer number of slots; DayLen slots make a calendar day.   *)
(***************************************************************************)
EXTENDS Integers, Sequences, FiniteSets, TLC

VARIABLES
    now,        \* the wall clock, datetime.now(timezone.utc)
    boot,       \* the instant the process started
    meds,       \* table medications: id -> row
    intakes,    \* table intakes: a set of rows
    nextId,     \* the serial of intakes.id
    tick,       \* the reminder_loop task: position and local variables
    METRICS,    \* the process-wide counters
    last,       \* the handler or tick step that ran last, and its outcome
    acted,      \* number of callback queries handled so far
    hist,       \* history: skips, deliveries and failures not yet followed by
                \* a snooze, medications the running tick has resumed (and
                \* those whose notice failed), loops that faulted and that
                \* ran again afterwards
    users,          \* table users: id -> row (the zone the user has set)
    SUMMARY_STATE,  \* the process-wide map user id -> last summary date
    summary,        \* the daily_summary_loop task: position and locals
    sumhist,        \* history: (user, day) of summaries delivered and failed
    db,             \* src/db.py: the pool and the db_query call in progress
    flow,           \* the add / edit dialogue: FSM state and its data
    calc            \* a time or preference helper being evaluated

\* what the reminder engine and the intake handlers leave alone
sumvars == <<users, SUMMARY_STATE, summary, sumhist>>

\* what the engine, the handlers and the summary leave alone
auxvars == <<db, flow, calc>>

\* the store, the reminder task and the counters
enginevars == <<now, boot, meds, intakes, nextId, tick, METRICS, last, acted, hist>>

vars == <<now, boot, meds, intakes, nextId, tick, METRICS, last, acted, hist,
          users, SUMMARY_STATE, summary, sumhist, db, flow, calc>>

-----------------------------------------------------------------------------
(* Bounds of the model *)

MaxElapsed == 1       \* slots the clock advances after the start
MaxUserActions == 2   \* callback queries handled in one behaviour
MaxSummaryTicks == 3  \* iterations of daily_summary_loop in one behaviour
MaxDbCalls == 3       \* calls of db_query in one behaviour
MaxFlowSteps == 7     \* updates handled by the add / edit dialogue
MaxDoses == 2         \* doses a day the user asks for
MaxZoneCalls == 4     \* calls of resolve_timezone in one behaviour

-----------------------------------------------------------------------------
(* Program constants, scaled to slots *)

NULL == -1                       \* SQL NULL / Python None for an instant
DayLen == 2                      \* timedelta(days=1)
ZoneOffset == 1                  \* utcoffset of the user's zone
REMIND_BEFORE_MINUTES == 1       \* lead time of the reminder
SNOOZE_CUSTOM_OPTIONS == {1, 2}  \* minutes offered by the snooze keyboard
PAUSE_DURATION_OPTIONS == {1}    \* lengths of a pause
SUMMARY_HOUR == 1                \* local hour (slot of the day) of the summary

MedIds == {1}
UserIds == {1}
\* zones a user can set with /timezone: the default one and one a whole day
\* ahead of it (as Pacific/Pago_Pago and Pacific/Apia are)
ZoneOffsets == {ZoneOffset, ZoneOffset + DayLen}
\* the process starts in the first slot of a local day
BootSlots == {DayLen + 1}
\* schedules the add / edit flow can store; the flow does not reject a
\* clock time that is entered twice
Schedules == {<<0, 1>>, <<1, 1>>}

-----------------------------------------------------------------------------
(* Time resolution *)

\* get_local_today: datetime.now(zone).date()
get_local_today(clock) == (clock + ZoneOffset) \div DayLen

\* local_time_to_utc: datetime(date, hour, minute, tzinfo=zone).astimezone(utc)
local_time_to_utc(target_date, t) == target_date * DayLen + t - ZoneOffset

\* to_local(dt, zone).date() and .strftime("%H:%M")
to_local_date(dt) == (dt + ZoneOffset) \div DayLen
to_local_time(dt) == (dt + ZoneOffset) % DayLen

-----------------------------------------------------------------------------
(* Intake store access *)

NewIntake(id, med_id, scheduled_dt, default_reminder_at) ==
    [id |-> id, medication_id |-> med_id, scheduled_at |-> scheduled_dt,
     taken |-> FALSE, taken_at |-> NULL, reminders_paused |-> FALSE,
     reminder_sent |-> FALSE, next_reminder_at |-> default_reminder_at,
     last_reminder_at |-> NULL]

RowsOf(ins, med_id, scheduled_dt) ==
    {r \in ins : r.medication_id = med_id /\ r.scheduled_at = scheduled_dt}

RowById(ins, id) == {r \in ins : r.id = id}

\* UPDATE intakes SET ... WHERE id = %s
UpdateById(ins, id, F(_)) == {IF r.id = id THEN F(r) ELSE r : r \in ins}

\* ensure_intake_record with the INSERT made unconditionally
EnsureAlwaysInsert(ins, nid, med_id, scheduled_dt, default_reminder_at) ==
    LET new == NewIntake(nid, med_id, scheduled_dt, default_reminder_at)
    IN  [intakes |-> ins \cup {new}, nextId |-> nid + 1, row |-> new]

\* ensure_intake_record whose backfill does not look at reminder_sent
EnsureBackfillsSent(ins, nid, med_id, scheduled_dt, default_reminder_at) ==
    IF RowsOf(ins, med_id, scheduled_dt) = {}
    THEN LET new == NewIntake(nid, med_id, scheduled_dt, default_reminder_at)
         IN  [intakes |-> ins \cup {new}, nextId |-> nid + 1, row |-> new]
    ELSE LET row == CHOOSE r \in RowsOf(ins, med_id, scheduled_dt) : TRUE
             upd == [row EXCEPT !.next_reminder_at = default_reminder_at]
         IN  IF /\ ~row.taken
                /\ ~row.reminders_paused
                /\ row.next_reminder_at = NULL
                /\ default_reminder_at # NULL
             THEN [intakes |-> {IF r.id = row.id THEN upd ELSE r : r \in ins},
                   nextId |-> nid, row |-> upd]
             ELSE [intakes |-> ins, nextId |-> nid, row |-> row]

\* ensure_intake_record: INSERT ... ON CONFLICT DO NOTHING RETURNING *, then
\* SELECT and backfill of next_reminder_at on a row nobody touched yet
ensure_intake_record(ins, nid, med_id, scheduled_dt, default_reminder_at) ==
    IF RowsOf(ins, med_id, scheduled_dt) = {}
    THEN LET new == NewIntake(nid, med_id, scheduled_dt, default_reminder_at)
         IN  [intakes |-> ins \cup {new}, nextId |-> nid + 1, row |-> new]
    ELSE LET row == CHOOSE r \in RowsOf(ins, med_id, scheduled_dt) : TRUE
         IN  IF /\ ~row.taken
                /\ ~row.reminders_paused
                /\ ~row.reminder_sent
                /\ row.next_reminder_at = NULL
                /\ default_reminder_at # NULL
             THEN LET upd == [row EXCEPT !.next_reminder_at = default_reminder_at]
                  IN  [intakes |-> UpdateById(ins, row.id, LAMBDA r : upd),
                       nextId |-> nid, row |-> upd]
             ELSE [intakes |-> ins, nextId |-> nid, row |-> row]

\* mark_intake_taken that leaves next_reminder_at as it is
MarkTakenKeepReminder(ins, id, clock) ==
    UpdateById(ins, id, LAMBDA r : [r EXCEPT !.taken = TRUE, !.taken_at = clock])

\* mark_intake_taken
mark_intake_taken(ins, id, clock) ==
    UpdateById(ins, id, LAMBDA r : [r EXCEPT !.taken = TRUE,
                                             !.taken_at = clock,
                                             !.next_reminder_at = NULL])

\* snooze_intake that leaves reminders_paused as it is
SnoozeKeepPaused(ins, id, minutes, clock) ==
    UpdateById(ins, id, LAMBDA r : [r EXCEPT !.next_reminder_at = clock + minutes])

\* snooze_intake
snooze_intake(ins, id, minutes, clock) ==
    UpdateById(ins, id, LAMBDA r : [r EXCEPT !.next_reminder_at = clock + minutes,
                                             !.reminders_paused = FALSE])

\* pause_intake_reminders that leaves next_reminder_at as it is
PauseKeepReminder(ins, id) ==
    UpdateById(ins, id, LAMBDA r : [r EXCEPT !.reminders_paused = TRUE])

\* pause_intake_reminders
pause_intake_reminders(ins, id) ==
    UpdateById(ins, id, LAMBDA r : [r EXCEPT !.reminders_paused = TRUE,
                                             !.next_reminder_at = NULL])

\* clear_future_intakes that deletes nothing
ClearNothing(ins, med_id, cutoff) == ins

\* clear_future_intakes without its test of medication_id
ClearEveryMedication(ins, med_id, cutoff) ==
    {r \in ins : ~(r.scheduled_at >= cutoff /\ ~r.taken)}

\* clear_future_intakes; from_dt is never passed, the cutoff is the clock
clear_future_intakes(ins, med_id, cutoff) ==
    {r \in ins : ~(r.medication_id = med_id /\ r.scheduled_at >= cutoff /\ ~r.taken)}

\* set_medication_active writing paused_until only when it pauses
SetActiveKeepsPausedUntil(ms, med_id, active, paused_until) ==
    [ms EXCEPT ![med_id].is_active = active,
               ![med_id].paused_until = IF active THEN @ ELSE paused_until]

\* set_medication_active
set_medication_active(ms, med_id, active, paused_until) ==
    [ms EXCEPT ![med_id].is_active = active,
               ![med_id].paused_until = IF active THEN NULL ELSE paused_until]

\* update_medication_schedule
update_medication_schedule(ms, med_id, times) ==
    [ms EXCEPT ![med_id].times = times]

\* the bookkeeping UPDATE with next_reminder_at left as it is
BookkeepingKeepReminder(ins, id, now_utc) ==
    UpdateById(ins, id, LAMBDA r : [r EXCEPT !.reminder_sent = TRUE,
                                             !.last_reminder_at = now_utc])

\* the bookkeeping UPDATE that follows a successful send_message
ReminderBookkeeping(ins, id, now_utc) ==
    UpdateById(ins, id, LAMBDA r : [r EXCEPT !.reminder_sent = TRUE,
                                             !.last_reminder_at = now_utc,
                                             !.next_reminder_at = NULL])

-----------------------------------------------------------------------------
(* The scheduling tick: reminder_loop *)

NoIntake == NewIntake(0, 0, 0, NULL)

\* what `last` records: the step, the id and argument it was called with, its
\* answer, and the intake row it read before acting
Done(op, id, arg, outcome, intake) ==
    [op |-> op, id |-> id, arg |-> arg, outcome |-> outcome, intake |-> intake]

\* the row a SELECT ... WHERE id = %s returned
Read(found) == CHOOSE r \in found : TRUE

\* the task between two ticks: asleep, no local variable alive
IdleTick ==
    [pc |-> "sleep", now_utc |-> NULL, rows |-> <<>>, snap |-> <<>>,
     mi |-> 0, d |-> 0, ti |-> 0, today |-> 0, pending |-> NoIntake]

TickSteps == {"tick_start", "resume_notified", "reminder_sent", "reminder_failed"}

RECURSIVE SortedSeq(_)
\* the ids of a result set, in id order
SortedSeq(S) ==
    IF S = {} THEN <<>>
    ELSE LET m == CHOOSE x \in S : \A y \in S : x <= y
         IN  <<m>> \o SortedSeq(S \ {m})

\* line 1836 without its test of day_offset
SkipsDeliveryAnyDay(intake, day_offset) ==
    intake.taken \/ intake.reminders_paused

\* line 1836: rows the tick does not evaluate for delivery
SkipsDelivery(intake, day_offset) ==
    day_offset > 0 \/ intake.taken \/ intake.reminders_paused

\* lines 1836-1843: a reminder is sent for this row now
DeliveryDue(intake, day_offset, now_utc) ==
    /\ ~SkipsDelivery(intake, day_offset)
    /\ intake.next_reminder_at # NULL
    /\ now_utc >= intake.next_reminder_at

\* lines 1827-1829 alone: the default reminder instant, never clamped
DefaultReminderUnclamped(scheduled_dt, day_offset, now_utc) ==
    scheduled_dt - REMIND_BEFORE_MINUTES

\* lines 1827-1831: the default reminder instant, clamped for today
DefaultReminderAt(scheduled_dt, day_offset, now_utc) ==
    LET d0 == scheduled_dt - REMIND_BEFORE_MINUTES
    IN  IF day_offset = 0 /\ d0 < now_utc THEN now_utc ELSE d0

RECURSIVE RunReminders(_, _, _, _)
\* the three nested loops of check_and_send_reminders, run from position
\* (st.mi, st.d, st.ti) until a send_message suspends the task or the loops
\* end; today_local is read from the clock when a medication is entered
RunReminders(st, snap, now_utc, clock) ==
    IF st.mi > Len(snap)
    THEN [intakes |-> st.intakes, nextId |-> st.nextId, tick |-> IdleTick]
    ELSE IF st.d > 1
    THEN RunReminders([st EXCEPT !.mi = @ + 1, !.d = 0, !.ti = 1,
                                 !.today = get_local_today(clock)],
                      snap, now_utc, clock)
    ELSE IF st.ti > Len(snap[st.mi].times)
    THEN RunReminders([st EXCEPT !.d = @ + 1, !.ti = 1], snap, now_utc, clock)
    ELSE LET med == snap[st.mi]
             scheduled_dt == local_time_to_utc(st.today + st.d, med.times[st.ti])
             e == ensure_intake_record(st.intakes, st.nextId, med.id, scheduled_dt,
                      DefaultReminderAt(scheduled_dt, st.d, now_utc))
         IN  IF DeliveryDue(e.row, st.d, now_utc)
             THEN [intakes |-> e.intakes, nextId |-> e.nextId,
                   tick |-> [pc |-> "remind_send", now_utc |-> now_utc,
                             rows |-> <<>>, snap |-> snap, mi |-> st.mi,
                             d |-> st.d, ti |-> st.ti, today |-> st.today,
                             pending |-> e.row]]
             ELSE RunReminders([st EXCEPT !.intakes = e.intakes,
                                          !.nextId = e.nextId, !.ti = @ + 1],
                               snap, now_utc, clock)

\* check_and_send_reminders from its first line: now_utc and the snapshot of
\* the active medications are taken here
check_and_send_reminders(ms, ins, nid, clock) ==
    LET ids  == SortedSeq({m \in DOMAIN ms : ms[m].is_active})
        snap == [i \in 1 .. Len(ids) |-> [id |-> ids[i], times |-> ms[ids[i]].times]]
        r    == RunReminders([intakes |-> ins, nextId |-> nid, mi |-> 1, d |-> 0,
                              ti |-> 1, today |-> get_local_today(clock)],
                             snap, clock, clock)
    IN  [meds |-> ms, intakes |-> r.intakes, nextId |-> r.nextId, tick |-> r.tick]

\* the loop of resume_due_medications over the rows selected at its start:
\* reactivate the next one and suspend on its notice, or go on to
\* check_and_send_reminders when none is left
ResumeNext(ms, ins, nid, rows, now_utc, clock) ==
    IF rows = <<>>
    THEN check_and_send_reminders(ms, ins, nid, clock)
    ELSE [meds |-> set_medication_active(ms, Head(rows), TRUE, NULL),
          intakes |-> clear_future_intakes(ins, Head(rows), clock),
          nextId |-> nid,
          tick |-> [IdleTick EXCEPT !.pc = "resume_send", !.now_utc = now_utc,
                                    !.rows = Tail(rows), !.mi = Head(rows)]]

\* the SELECT of resume_due_medications
DueForResume(ms, now_utc) ==
    {m \in DOMAIN ms : /\ ~ms[m].is_active
                       /\ ms[m].paused_until # NULL
                       /\ ms[m].paused_until <= now_utc}

Existing(ins) == {r.id : r \in ins}

\* nothing has happened yet
NoHistory ==
    [delivered |-> {}, skipped |-> {}, failed |-> {}, resumed |-> {},
     unnotified |-> {}, faulted |-> {}, recovered |-> {}]

\* an iteration of the loop starts: it follows every fault there was
Recovered(h, loop) == [h EXCEPT !.recovered = @ \cup (h.faulted \cap {loop})]

\* history kept for the rows that still exist (skips are kept by occurrence)
Prune(h, ins) ==
    [h EXCEPT !.delivered = @ \cap Existing(ins),
              !.failed = {f \in @ : f.id \in Existing(ins)}]

\* the tick has ended: the notices of its resumes are forgotten
AtRest(h, pc) == IF pc = "sleep" THEN [h EXCEPT !.unnotified = {}] ELSE h

\* history without the failure recorded for a row
Settled(h, id) == [h EXCEPT !.failed = {f \in @ : f.id # id}]

\* the except branch of the send doing the bookkeeping of a delivery
DeliveryFailureMarksSent(ins, id, now_utc) ==
    {IF r.id = id THEN [r EXCEPT !.reminder_sent = TRUE,
                                 !.last_reminder_at = now_utc,
                                 !.next_reminder_at = NULL]
     ELSE r : r \in ins}

\* the except branch of the send (lines 1879-1882): no UPDATE is made
DeliveryFailure(ins, id, now_utc) == ins

\* a tick wakes up: resume_due_medications, then check_and_send_reminders
TickStart ==
    /\ tick.pc = "ready"
    /\ LET r == ResumeNext(meds, intakes, nextId,
                           SortedSeq(DueForResume(meds, now)), now, now)
       IN  /\ meds' = r.meds
           /\ intakes' = r.intakes
           /\ nextId' = r.nextId
           /\ tick' = r.tick
           /\ hist' = Prune([Recovered(hist, "reminder") EXCEPT
                                 !.resumed = IF r.tick.pc = "resume_send"
                                             THEN {r.tick.mi} ELSE {},
                                 !.unnotified = {}],
                            r.intakes)
    /\ last' = Done("tick_start", 0, 0, "ok", NoIntake)
    /\ UNCHANGED <<now, boot, METRICS, acted>>
    /\ UNCHANGED sumvars
    /\ UNCHANGED auxvars

\* the send_message of a resume notice returns; a failure is only logged
ResumeNotified(ok) ==
    /\ tick.pc = "resume_send"
    /\ LET r == ResumeNext(meds, intakes, nextId, tick.rows, tick.now_utc, now)
       IN  /\ meds' = r.meds
           /\ intakes' = r.intakes
           /\ nextId' = r.nextId
           /\ tick' = r.tick
           /\ hist' = AtRest(Prune([hist EXCEPT
                                 !.resumed = IF r.tick.pc = "resume_send"
                                             THEN @ \cup {r.tick.mi} ELSE @,
                                 !.unnotified = IF ok THEN @ ELSE @ \cup {tick.mi}],
                            r.intakes), r.tick.pc)
    /\ last' = Done("resume_notified", tick.mi, 0,
                     IF ok THEN "ok" ELSE "failed", NoIntake)
    /\ UNCHANGED <<now, boot, METRICS, acted>>
    /\ UNCHANGED sumvars
    /\ UNCHANGED auxvars

\* the send_message of a reminder returns: bookkeeping UPDATE and counter,
\* then the loops go on
ReminderSent ==
    /\ tick.pc = "remind_send"
    /\ LET ins == ReminderBookkeeping(intakes, tick.pending.id, tick.now_utc)
           r   == RunReminders([intakes |-> ins, nextId |-> nextId, mi |-> tick.mi,
                                d |-> tick.d, ti |-> tick.ti + 1,
                                today |-> tick.today],
                               tick.snap, tick.now_utc, now)
       IN  /\ intakes' = r.intakes
           /\ nextId' = r.nextId
           /\ tick' = r.tick
           /\ hist' = AtRest(Prune(Settled([hist EXCEPT !.delivered =
                                                      @ \cup {tick.pending.id}],
                                           tick.pending.id),
                                   r.intakes), r.tick.pc)
    /\ METRICS' = [METRICS EXCEPT !.reminders_sent = @ + 1]
    /\ last' = Done("reminder_sent", tick.pending.id, 0, "ok", tick.pending)
    /\ UNCHANGED <<now, boot, meds, acted>>
    /\ UNCHANGED sumvars
    /\ UNCHANGED auxvars

\* the except branch of the send ending with `raise`: no loop goes on
AbortAfterDeliveryFailure(t) == [mi |-> Len(t.snap) + 1, d |-> 0, ti |-> 1]

\* lines 1879-1882: the except branch ends and `for t_str` goes on with the
\* next time
AfterDeliveryFailure(t) == [mi |-> t.mi, d |-> t.d, ti |-> t.ti + 1]

\* the send_message of a reminder raises: counter and alert, no write
ReminderFailed ==
    /\ tick.pc = "remind_send"
    /\ LET ins == DeliveryFailure(intakes, tick.pending.id, tick.now_utc)
           p   == AfterDeliveryFailure(tick)
           r   == RunReminders([intakes |-> ins, nextId |-> nextId,
                                mi |-> p.mi, d |-> p.d, ti |-> p.ti,
                                today |-> tick.today],
                               tick.snap, tick.now_utc, now)
       IN  /\ intakes' = r.intakes
           /\ nextId' = r.nextId
           /\ tick' = r.tick
           /\ hist' = AtRest(Prune(IF tick.pending \in intakes
                                   THEN [Settled(hist, tick.pending.id) EXCEPT !.failed =
                                            @ \cup {[id |-> tick.pending.id,
                                                     at |-> tick.now_utc]}]
                                   ELSE hist,
                                   r.intakes), r.tick.pc)
    /\ METRICS' = [METRICS EXCEPT !.reminders_failed = @ + 1]
    /\ last' = Done("reminder_failed", tick.pending.id, 0, "failed", tick.pending)
    /\ UNCHANGED <<now, boot, meds, acted>>
    /\ UNCHANGED sumvars
    /\ UNCHANGED auxvars

\* time passes; asyncio.sleep(60) of a sleeping tick elapses
Advance ==
    /\ now < boot + MaxElapsed
    /\ now' = now + 1
    /\ tick' = IF tick.pc = "sleep" THEN [tick EXCEPT !.pc = "ready"] ELSE tick
    /\ last' = Done("advance", 0, 0, "ok", NoIntake)
    /\ UNCHANGED <<boot, meds, intakes, nextId, METRICS, acted, hist>>
    /\ UNCHANGED sumvars
    /\ UNCHANGED auxvars

-----------------------------------------------------------------------------
(* User actions: the callback handlers *)

\* ids a callback can carry: buttons of a reminder that was sent, also of a
\* row deleted since (Telegram keeps the keyboard of an old message)
ReminderButtonIds ==
    {r.id : r \in {x \in intakes : x.reminder_sent}}
        \cup ((1 .. (nextId - 1)) \ Existing(intakes))

\* "take:" buttons are also shown by the manual-mark keyboard, for today's
\* intakes of the active medications
TakeButtonIds ==
    ReminderButtonIds
        \cup {r.id : r \in {x \in intakes :
                              /\ x.medication_id \in DOMAIN meds
                              /\ meds[x.medication_id].is_active
                              /\ to_local_date(x.scheduled_at) = get_local_today(now)}}

\* the handlers' test of intake["taken"], always answering "not taken"
IntakeTakenIgnored(intake) == FALSE

\* lines 1702 and 1512: `if intake["taken"]`, on the row the handler read
IntakeTaken(intake) == intake.taken

\* lines 694-699 and 636-641: the row of the id, if there is one
get_med_by_id(ms, med_id) == {m \in DOMAIN ms : m = med_id}
get_user_by_id(us, user_id) == {u \in DOMAIN us : u = user_id}

\* med["user_id"]: the medications of the model belong to the one user
UserOf(med_id) == CHOOSE u \in UserIds : TRUE

\* the handlers' `if not med`, never answering "not found"
MedMissingIgnored(ms, intake) == FALSE

\* lines 1688-1691 and 1508-1511: `if not med` after get_med_by_id
MedMissing(ms, intake) == get_med_by_id(ms, intake.medication_id) = {}

\* lines 1693-1696 and 1517-1520: `if not user` after get_user_by_id
UserMissing(us, intake) == get_user_by_id(us, UserOf(intake.medication_id)) = {}

\* callback_intake_actions, action "take"
CallbackTake(id) ==
    /\ acted < MaxUserActions
    /\ acted' = acted + 1
    /\ id \in TakeButtonIds
    /\ LET found == RowById(intakes, id)
       IN  IF found = {}
           THEN /\ last' = Done("take", id, 0, "not_found", NoIntake)
                /\ UNCHANGED <<intakes, METRICS, hist>>
           ELSE IF MedMissing(meds, Read(found)) \/ UserMissing(users, Read(found))
           THEN /\ last' = Done("take", id, 0, "not_found", Read(found))
                /\ UNCHANGED <<intakes, METRICS, hist>>
           ELSE IF IntakeTaken(Read(found))
           THEN /\ last' = Done("take", id, 0, "already_taken", Read(found))
                /\ UNCHANGED <<intakes, METRICS, hist>>
           ELSE /\ intakes' = mark_intake_taken(intakes, id, now)
                /\ METRICS' = [METRICS EXCEPT !.intakes_marked = @ + 1]
                /\ hist' = Settled(hist, id)
                /\ last' = Done("take", id, 0, "taken", Read(found))
    /\ UNCHANGED <<now, boot, meds, nextId, tick>>
    /\ UNCHANGED sumvars
    /\ UNCHANGED auxvars

\* callback_snooze_option: the user picked an interval
CallbackSnoozeOption(id, minutes) ==
    /\ acted < MaxUserActions
    /\ acted' = acted + 1
    /\ id \in ReminderButtonIds
    /\ LET found == RowById(intakes, id)
       IN  IF found = {}
           THEN /\ last' = Done("snoozeopt", id, minutes, "not_found", NoIntake)
                /\ UNCHANGED <<intakes, METRICS, hist>>
           ELSE IF MedMissing(meds, Read(found))
           THEN /\ last' = Done("snoozeopt", id, minutes, "not_found", Read(found))
                /\ UNCHANGED <<intakes, METRICS, hist>>
           ELSE IF IntakeTaken(Read(found))
           THEN /\ last' = Done("snoozeopt", id, minutes, "already_taken", Read(found))
                /\ UNCHANGED <<intakes, METRICS, hist>>
           ELSE IF UserMissing(users, Read(found))
           THEN /\ last' = Done("snoozeopt", id, minutes, "not_found", Read(found))
                /\ UNCHANGED <<intakes, METRICS, hist>>
           ELSE /\ intakes' = snooze_intake(intakes, id, minutes, now)
                /\ METRICS' = [METRICS EXCEPT !.snoozes = @ + 1]
                /\ hist' = LET r == Read(found)
                           IN  [Settled(hist, id) EXCEPT
                                  !.delivered = @ \ {id},
                                  !.skipped = {s \in @ :
                                                 ~(/\ s.medication_id = r.medication_id
                                                   /\ s.scheduled_at = r.scheduled_at)}]
                /\ last' = Done("snoozeopt", id, minutes, "snoozed", Read(found))
    /\ UNCHANGED <<now, boot, meds, nextId, tick>>
    /\ UNCHANGED sumvars
    /\ UNCHANGED auxvars

\* callback_intake_actions, action "skip"
CallbackSkip(id) ==
    /\ acted < MaxUserActions
    /\ acted' = acted + 1
    /\ id \in ReminderButtonIds
    /\ LET found == RowById(intakes, id)
       IN  IF found = {}
           THEN /\ last' = Done("skip", id, 0, "not_found", NoIntake)
                /\ UNCHANGED <<intakes, hist>>
           ELSE IF MedMissing(meds, Read(found)) \/ UserMissing(users, Read(found))
           THEN /\ last' = Done("skip", id, 0, "not_found", Read(found))
                /\ UNCHANGED <<intakes, hist>>
           ELSE /\ intakes' = pause_intake_reminders(intakes, id)
                /\ hist' = LET r == Read(found)
                           IN  IF r.taken THEN hist
                               ELSE [Settled(hist, id) EXCEPT !.skipped = @ \cup
                                       {[id |-> id, medication_id |-> r.medication_id,
                                         scheduled_at |-> r.scheduled_at]}]
                /\ last' = Done("skip", id, 0, "skipped", Read(found))
    /\ UNCHANGED <<now, boot, meds, nextId, tick, METRICS>>
    /\ UNCHANGED sumvars
    /\ UNCHANGED auxvars

\* finalize_medication_entry with edit_med_id set: the schedule is replaced
\* and the future untaken intakes are deleted
FinalizeEdit(med_id, times) ==
    /\ acted < MaxUserActions
    /\ acted' = acted + 1
    /\ meds' = update_medication_schedule(meds, med_id, times)
    /\ intakes' = clear_future_intakes(intakes, med_id, now)
    /\ hist' = Prune([hist EXCEPT !.resumed = @ \ {med_id}], intakes')
    /\ last' = Done("edit", med_id, 0, "ok", NoIntake)
    /\ UNCHANGED <<now, boot, nextId, tick, METRICS>>
    /\ UNCHANGED sumvars
    /\ UNCHANGED auxvars

\* lines 687-691: DELETE FROM medications
delete_medication(ms, med_id) == [m \in DOMAIN ms \ {med_id} |-> ms[m]]

\* the intakes of a deleted medication go with it where the foreign key of
\* the schema cascades; the schema is not part of the source
CascadeIntakes(ins, med_id, cascade) ==
    IF cascade THEN {r \in ins : r.medication_id # med_id} ELSE ins

\* callback_delete_confirm with the choice "yes"
CallbackDeleteConfirm(med_id, cascade) ==
    /\ acted < MaxUserActions
    /\ acted' = acted + 1
    /\ meds' = delete_medication(meds, med_id)
    /\ intakes' = CascadeIntakes(intakes, med_id, cascade)
    /\ hist' = Prune([hist EXCEPT !.resumed = @ \ {med_id}], intakes')
    /\ last' = Done("delete", med_id, 0, "ok", NoIntake)
    /\ UNCHANGED <<now, boot, nextId, tick, METRICS>>
    /\ UNCHANGED sumvars
    /\ UNCHANGED auxvars

\* callback_pause_med
CallbackPauseMed(med_id, delta) ==
    /\ acted < MaxUserActions
    /\ acted' = acted + 1
    /\ meds' = set_medication_active(meds, med_id, FALSE, now + delta)
    /\ hist' = [hist EXCEPT !.resumed = @ \ {med_id}]
    /\ last' = Done("pause", med_id, delta, "ok", NoIntake)
    /\ UNCHANGED <<now, boot, intakes, nextId, tick, METRICS>>
    /\ UNCHANGED sumvars
    /\ UNCHANGED auxvars

\* callback_resume_med
CallbackResumeMed(med_id) ==
    /\ acted < MaxUserActions
    /\ acted' = acted + 1
    /\ IF meds[med_id].is_active
       THEN /\ last' = Done("resume", med_id, 0, "already_active", NoIntake)
            /\ UNCHANGED <<meds, intakes, hist>>
       ELSE /\ meds' = set_medication_active(meds, med_id, TRUE, NULL)
            /\ intakes' = clear_future_intakes(intakes, med_id, now)
            /\ hist' = Prune([hist EXCEPT !.resumed = @ \ {med_id}], intakes')
            /\ last' = Done("resume", med_id, 0, "ok", NoIntake)
    /\ UNCHANGED <<now, boot, nextId, tick, METRICS>>
    /\ UNCHANGED sumvars
    /\ UNCHANGED auxvars

\* callback_toggle_medication: the medication's state is inverted; no
\* paused_until is passed
CallbackToggleMedication(med_id) ==
    /\ acted < MaxUserActions
    /\ acted' = acted + 1
    /\ LET new_state == ~meds[med_id].is_active
       IN  /\ meds' = set_medication_active(meds, med_id, new_state, NULL)
           /\ intakes' = IF new_state THEN clear_future_intakes(intakes, med_id, now)
                         ELSE intakes
           /\ hist' = Prune([hist EXCEPT !.resumed = @ \ {med_id}], intakes')
           /\ last' = Done("toggle", med_id, 0,
                           IF new_state THEN "resumed" ELSE "paused", NoIntake)
    /\ UNCHANGED <<now, boot, nextId, tick, METRICS>>
    /\ UNCHANGED sumvars
    /\ UNCHANGED auxvars

-----------------------------------------------------------------------------
(* The daily summary: daily_summary_loop *)

\* datetime.now(zone).date() and .hour for a zone given by its offset
local_date(clock, off) == (clock + off) \div DayLen
local_hour(clock, off) == (clock + off) % DayLen

\* get_intakes_for_day: the rows of [day start, day start + 1 day) in the zone
get_intakes_for_day(ins, med_id, target_date, off) ==
    {r \in ins : /\ r.medication_id = med_id
                 /\ r.scheduled_at >= target_date * DayLen - off
                 /\ r.scheduled_at < target_date * DayLen - off + DayLen}

\* lines 1643-1645: mark_intake_taken for every pending intake
RECURSIVE MarkEach(_, _, _)
MarkEach(ins, ids, clock) ==
    IF ids = {} THEN ins
    ELSE LET id == CHOOSE x \in ids : TRUE
         IN  MarkEach(mark_intake_taken(ins, id, clock), ids \ {id}, clock)

\* callback_take_all: the "mark all" button of the manual-mark keyboard
CallbackTakeAll(med_id) ==
    /\ acted < MaxUserActions
    /\ acted' = acted + 1
    /\ IF \/ get_med_by_id(meds, med_id) = {}
          \/ get_user_by_id(users, UserOf(med_id)) = {}
       THEN /\ last' = Done("take_all", med_id, 0, "not_found", NoIntake)
            /\ UNCHANGED <<intakes, METRICS, hist>>
       ELSE LET rows    == get_intakes_for_day(intakes, med_id, get_local_today(now),
                                               users[UserOf(med_id)].timezone)
                pending == {r \in rows : ~r.taken}
                armed   == {r \in pending : r.next_reminder_at # NULL}
            IN  IF pending = {}
                THEN /\ last' = Done("take_all", med_id, 0, "all_marked", NoIntake)
                     /\ UNCHANGED <<intakes, METRICS, hist>>
                ELSE /\ intakes' = MarkEach(intakes, {r.id : r \in pending}, now)
                     /\ METRICS' = [METRICS EXCEPT
                                       !.intakes_marked = @ + Cardinality(pending)]
                     /\ hist' = [hist EXCEPT !.failed =
                                    {f \in @ : f.id \notin {r.id : r \in pending}}]
                     /\ last' = Done("take_all", med_id, Cardinality(pending), "taken",
                                     IF armed # {} THEN Read(armed) ELSE Read(pending))
    /\ UNCHANGED <<now, boot, meds, nextId, tick>>
    /\ UNCHANGED sumvars
    /\ UNCHANGED auxvars

\* get_user_medications with include_inactive = True
AllMedications(ms) == DOMAIN ms

\* get_user_medications(user_id): include_inactive defaults to False
get_user_medications(ms) == {m \in DOMAIN ms : ms[m].is_active}

\* lines 1894-1907: one line per medication with an intake on `today`
SummaryLines(ms, ins, today, off) ==
    {[med |-> m,
      taken |-> Cardinality({r \in get_intakes_for_day(ins, m, today, off) : r.taken}),
      total |-> Cardinality(get_intakes_for_day(ins, m, today, off))] :
        m \in {x \in get_user_medications(ms) :
                  get_intakes_for_day(ins, x, today, off) # {}}}

RECURSIVE Missed(_)
\* the sum of total - taken over the lines
Missed(lines) ==
    IF lines = {} THEN 0
    ELSE LET l == CHOOSE x \in lines : TRUE
         IN  (l.total - l.taken) + Missed(lines \ {l})

\* line 1937 made unconditional
RecordSummaryDayAlways(state, user, today, sent) == [state EXCEPT ![user] = today]

\* lines 1936-1937: `if sent: SUMMARY_STATE[user["id"]] = today`
RecordSummaryDay(state, user, today, sent) ==
    IF sent THEN [state EXCEPT ![user] = today] ELSE state

\* the task between two iterations
IdleSummary(ticks) ==
    [pc |-> "sleep", ticks |-> ticks, user |-> 0, today |-> NULL, lines |-> {}]

\* Spec, SpecEve and SpecTwoMeds leave daily_summary_loop out
NoSummaryLoop ==
    /\ users = [u \in UserIds |-> [timezone |-> ZoneOffset]]
    /\ SUMMARY_STATE = [u \in UserIds |-> NULL]
    /\ summary = IdleSummary(0)
    /\ sumhist = [sent |-> {}, failed |-> {}]

\* maybe_send_daily_summary for the user, up to the await of send_message in
\* send_summary_for_user or to its end
SummaryTickStart ==
    /\ summary.pc = "ready"
    /\ LET u     == CHOOSE x \in UserIds : TRUE
           off   == users[u].timezone
           today == local_date(now, off)
           lines == SummaryLines(meds, intakes, today, off)
       IN  IF local_hour(now, off) < SUMMARY_HOUR
           THEN /\ summary' = IdleSummary(summary.ticks)
                /\ last' = Done("summary_start", u, today, "too_early", NoIntake)
                /\ UNCHANGED <<METRICS, SUMMARY_STATE>>
           ELSE IF SUMMARY_STATE[u] = today
           THEN /\ summary' = IdleSummary(summary.ticks)
                /\ last' = Done("summary_start", u, today, "done_today", NoIntake)
                /\ UNCHANGED <<METRICS, SUMMARY_STATE>>
           ELSE IF lines = {}
           THEN /\ summary' = IdleSummary(summary.ticks)
                /\ SUMMARY_STATE' = RecordSummaryDay(SUMMARY_STATE, u, today, FALSE)
                /\ last' = Done("summary_start", u, today, "no_data", NoIntake)
                /\ UNCHANGED METRICS
           ELSE /\ summary' = [pc |-> "send", ticks |-> summary.ticks, user |-> u,
                               today |-> today, lines |-> lines]
                /\ METRICS' = [METRICS EXCEPT !.missed = @ + Missed(lines)]
                /\ last' = Done("summary_start", u, today, "sending", NoIntake)
                /\ UNCHANGED SUMMARY_STATE
    /\ hist' = Recovered(hist, "summary")
    /\ UNCHANGED <<now, boot, meds, intakes, nextId, tick, acted, users, sumhist>>
    /\ UNCHANGED auxvars

\* send_message of the summary returns: the day is recorded
SummarySent ==
    /\ summary.pc = "send"
    /\ SUMMARY_STATE' = RecordSummaryDay(SUMMARY_STATE, summary.user, summary.today, TRUE)
    /\ sumhist' = [sumhist EXCEPT !.sent = @ \cup
                      {[user |-> summary.user, day |-> summary.today]}]
    /\ summary' = IdleSummary(summary.ticks)
    /\ last' = Done("summary_sent", summary.user, summary.today, "ok", NoIntake)
    /\ UNCHANGED <<now, boot, meds, intakes, nextId, tick, METRICS, acted, hist, users>>
    /\ UNCHANGED auxvars

\* send_message of the summary raises: send_summary_for_user returns False
SummaryFailed ==
    /\ summary.pc = "send"
    /\ SUMMARY_STATE' = RecordSummaryDay(SUMMARY_STATE, summary.user, summary.today, FALSE)
    /\ sumhist' = [sumhist EXCEPT !.failed = @ \cup
                      {[user |-> summary.user, day |-> summary.today]}]
    /\ summary' = IdleSummary(summary.ticks)
    /\ last' = Done("summary_failed", summary.user, summary.today, "failed", NoIntake)
    /\ UNCHANGED <<now, boot, meds, intakes, nextId, tick, METRICS, acted, hist, users>>
    /\ UNCHANGED auxvars

\* cmd_daily: send_summary_for_user for the user, whatever the hour and
\* SUMMARY_STATE; the counter is raised before the send, whose result
\* changes nothing that is kept
CmdDaily(u) ==
    /\ acted < MaxUserActions
    /\ acted' = acted + 1
    /\ LET off   == users[u].timezone
           today == local_date(now, off)
           lines == SummaryLines(meds, intakes, today, off)
       IN  /\ METRICS' = [METRICS EXCEPT !.missed = @ + Missed(lines)]
           /\ last' = Done("daily", u, today,
                           IF lines = {} THEN "no_data" ELSE "sending", NoIntake)
    /\ UNCHANGED <<now, boot, meds, intakes, nextId, tick, hist>>
    /\ UNCHANGED sumvars
    /\ UNCHANGED auxvars

\* asyncio.sleep(60) of daily_summary_loop elapses
SummaryWake ==
    /\ summary.pc = "sleep"
    /\ summary.ticks < MaxSummaryTicks
    /\ summary' = [summary EXCEPT !.pc = "ready", !.ticks = @ + 1]
    /\ last' = Done("summary_wake", 0, 0, "ok", NoIntake)
    /\ UNCHANGED <<now, boot, meds, intakes, nextId, tick, METRICS, acted, hist,
                   users, SUMMARY_STATE, sumhist>>
    /\ UNCHANGED auxvars

\* cmd_timezone with a valid zone name
CmdTimezone(user, off) ==
    /\ acted < MaxUserActions
    /\ acted' = acted + 1
    /\ users' = [users EXCEPT ![user].timezone = off]
    /\ last' = Done("timezone", user, off, "ok", NoIntake)
    /\ UNCHANGED <<now, boot, meds, intakes, nextId, tick, METRICS, hist,
                   SUMMARY_STATE, summary, sumhist>>
    /\ UNCHANGED auxvars

-----------------------------------------------------------------------------
(* Faults inside an iteration of reminder_loop and daily_summary_loop *)

\* notify_admin without its try / except
NotifyAdminUnguarded(ok) == IF ok THEN "returned" ELSE "raised"

\* notify_admin: the alert is sent or its failure is logged; nothing is
\* raised (lines 236-242)
notify_admin(ok) == "returned"

\* the except clause of a loop (lines 1757-1759, 1944-1946): the alert, then
\* asyncio.sleep; an exception leaving the clause ends the task
AfterFault(alert) == IF alert = "raised" THEN "dead" ELSE "sleep"

\* an exception leaves resume_due_medications or check_and_send_reminders:
\* the first query of the tick raises, or the query that follows the
\* bookkeeping of a delivered reminder does
TickFault ==
    /\ tick.pc \in {"ready", "remind_send"}
    /\ IF tick.pc = "ready"
       THEN /\ hist' = [hist EXCEPT !.faulted = @ \cup {"reminder"}]
            /\ UNCHANGED <<intakes, METRICS>>
       ELSE /\ intakes' = ReminderBookkeeping(intakes, tick.pending.id, tick.now_utc)
            /\ METRICS' = [METRICS EXCEPT !.reminders_sent = @ + 1]
            /\ hist' = Prune(Settled([hist EXCEPT
                                         !.delivered = @ \cup {tick.pending.id},
                                         !.faulted = @ \cup {"reminder"}],
                                     tick.pending.id),
                             intakes')
    /\ tick' = [IdleTick EXCEPT !.pc = "alert"]
    /\ last' = Done("tick_fault", 0, 0, "fault", NoIntake)
    /\ UNCHANGED <<now, boot, meds, nextId, acted>>
    /\ UNCHANGED sumvars
    /\ UNCHANGED auxvars

\* notify_admin of reminder_loop returns; the loop goes to sleep
TickAlerted(ok) ==
    /\ tick.pc = "alert"
    /\ tick' = [IdleTick EXCEPT !.pc = AfterFault(notify_admin(ok))]
    /\ last' = Done("tick_alerted", 0, 0, IF ok THEN "ok" ELSE "failed", NoIntake)
    /\ UNCHANGED <<now, boot, meds, intakes, nextId, METRICS, acted, hist>>
    /\ UNCHANGED sumvars
    /\ UNCHANGED auxvars

\* an exception leaves maybe_send_daily_summary: get_all_users raises
SummaryFault ==
    /\ summary.pc = "ready"
    /\ summary' = [IdleSummary(summary.ticks) EXCEPT !.pc = "alert"]
    /\ hist' = [hist EXCEPT !.faulted = @ \cup {"summary"}]
    /\ last' = Done("summary_fault", 0, 0, "fault", NoIntake)
    /\ UNCHANGED <<now, boot, meds, intakes, nextId, tick, METRICS, acted,
                   users, SUMMARY_STATE, sumhist>>
    /\ UNCHANGED auxvars

\* notify_admin of daily_summary_loop returns; the loop goes to sleep
SummaryAlerted(ok) ==
    /\ summary.pc = "alert"
    /\ summary' = [IdleSummary(summary.ticks) EXCEPT !.pc = AfterFault(notify_admin(ok))]
    /\ last' = Done("summary_alerted", 0, 0, IF ok THEN "ok" ELSE "failed", NoIntake)
    /\ UNCHANGED <<now, boot, meds, intakes, nextId, tick, METRICS, acted, hist,
                   users, SUMMARY_STATE, sumhist>>
    /\ UNCHANGED auxvars

-----------------------------------------------------------------------------
(* Storage access: db_query of src/db.py *)

\* the errors `except (psycopg2.InterfaceError, psycopg2.OperationalError)`
\* catches, and the other errors the driver and the pool raise
ConnectionErrors == {"InterfaceError", "OperationalError"}
OtherErrors == {"ProgrammingError", "PoolError"}

\* no call in progress; _pool is the pool init_db_pool made at import
IdleDb(calls) ==
    [pc |-> "idle", pool |-> TRUE, used |-> 0, conn |-> FALSE, attempt |-> 0,
     executed |-> 0, resets |-> 0, err |-> "none", outcome |-> "none",
     fetch |-> "none", calls |-> calls, taken |-> 0, given |-> 0]

\* _put_connection(conn) / _put_connection(conn, close=True) when conn is set
PutConnection(d) ==
    IF d.conn THEN [d EXCEPT !.conn = FALSE, !.used = @ - 1, !.given = @ + 1]
    ELSE d

\* db_query without its finally clause
FinallySkipped(d) == d

\* lines 102-104: `if conn is not None: _put_connection(conn)`
Finally(d) == PutConnection(d)

\* close_db_pool: closeall() when there is a pool, then _pool = None
close_db_pool(d) == [d EXCEPT !.pool = FALSE, !.used = 0]

\* lines 93-101 with `continue` taken on every attempt
OnConnectionErrorAlwaysRetry(d, err) ==
    LET c == Finally([close_db_pool(PutConnection(d)) EXCEPT !.resets = @ + 1,
                                                             !.err = err])
    IN  [c EXCEPT !.pc = "ensure", !.attempt = 1]

\* lines 93-101: the connection is closed, the pool discarded; `continue` on
\* the first attempt, `raise` on the second (finally finds conn = None)
OnConnectionError(d, err) ==
    LET c == Finally([close_db_pool(PutConnection(d)) EXCEPT !.resets = @ + 1,
                                                             !.err = err])
    IN  IF d.attempt = 0
        THEN [c EXCEPT !.pc = "ensure", !.attempt = 1]
        ELSE [c EXCEPT !.pc = "idle", !.outcome = "raised"]

\* an error the except clause does not name: lines 102-104 return the
\* connection and the error leaves db_query
OnOtherError(d, err) ==
    [Finally(d) EXCEPT !.pc = "idle", !.outcome = "raised", !.err = err]

OnError(d, err) ==
    IF err \in ConnectionErrors THEN OnConnectionError(d, err)
    ELSE OnOtherError(d, err)

\* no db_query call is followed step by step
NoStorageCall == db = IdleDb(0)

\* a caller enters db_query with fetchone, fetchall or neither: range(2)
\* starts at attempt 0
DbCall(fetch) ==
    /\ db.pc = "idle"
    /\ db.calls < MaxDbCalls
    /\ db' = [db EXCEPT !.pc = "ensure", !.attempt = 0, !.executed = 0,
                        !.resets = 0, !.err = "none", !.outcome = "running",
                        !.fetch = fetch, !.calls = @ + 1, !.taken = 0,
                        !.given = 0]
    /\ UNCHANGED <<enginevars, sumvars, flow, calc>>

\* line 83, _ensure_pool: the pool is made again when _pool is None, which
\* connects to the server and can fail
DbEnsurePool(err) ==
    /\ db.pc = "ensure"
    /\ err \in {"none", "OperationalError"}
    /\ err # "none" => ~db.pool
    /\ db' = IF err = "none"
             THEN [db EXCEPT !.pool = TRUE, !.pc = "getconn", !.err = "none"]
             ELSE OnError(db, err)
    /\ UNCHANGED <<enginevars, sumvars, flow, calc>>

\* line 84, pool.getconn()
DbGetconn(err) ==
    /\ db.pc = "getconn"
    /\ err \in {"none", "OperationalError", "PoolError"}
    /\ db' = IF err = "none"
             THEN [db EXCEPT !.conn = TRUE, !.used = @ + 1, !.taken = @ + 1,
                             !.pc = "execute", !.err = "none"]
             ELSE OnError(db, err)
    /\ UNCHANGED <<enginevars, sumvars, flow, calc>>

\* lines 85-92: cursor.execute and the fetch; the finally clause returns the
\* connection to the pool
DbExecute(err) ==
    /\ db.pc = "execute"
    /\ err \in {"none"} \cup ConnectionErrors \cup {"ProgrammingError"}
    /\ db' = LET d == [db EXCEPT !.executed = @ + 1]
             IN  IF err = "none"
                 THEN [Finally(d) EXCEPT
                          !.pc = "idle", !.err = "none",
                          !.outcome = IF d.fetch = "one" THEN "returned a row"
                                      ELSE IF d.fetch = "all" THEN "returned rows"
                                      ELSE "returned None"]
                 ELSE OnError(d, err)
    /\ UNCHANGED <<enginevars, sumvars, flow, calc>>

-----------------------------------------------------------------------------
(* The add / edit dialogue: AddMedStates and its handlers *)
(*                                                                         *)
(* The dispatcher handles every update in a task of its own.  The FSM      *)
(* storage is MemoryStorage, so state.get_data / update_data / set /       *)
(* finish do not suspend; a handler is suspended at message.answer and     *)
(* call.answer.  What a handler does after such an await is a continuation *)
(* kept in flow.tasks; continuations resume in any order.                  *)

\* state.finish(): no state, data = {}
EmptyData ==
    [name |-> "missing", dose_count |-> NULL, times |-> <<>>, periods |-> <<>>,
     schedule_mode |-> "missing", edit_med_id |-> 0]

IdleFlow == [state |-> "none", data |-> EmptyData, tasks |-> <<>>, steps |-> 0]

NoDialogue == flow = IdleFlow

\* DAY_PERIOD_PRESETS: key -> time of the day
DAY_PERIOD_PRESETS == [morning |-> 0, evening |-> 1]

\* what the user can type as a time: a form and the time of day it spells
RawTimes ==
    {[form |-> "HH:MM", t |-> 0], [form |-> "HH:MM", t |-> 1],
     [form |-> "HHMM", t |-> 1], [form |-> "text", t |-> 0]}

\* normalize_time_input: "HH:MM" of a text strptime accepts, else None
normalize_time_input(raw) ==
    IF raw.form \in {"HH:MM", "HHMM"} THEN raw.t ELSE NULL

\* a handler suspended on an answer: what it does when the await returns
Continuation(k, to, n) == [k |-> k, to |-> to, n |-> n]

RemoveAt(seq, i) == SubSeq(seq, 1, i - 1) \o SubSeq(seq, i + 1, Len(seq))

\* add_medication: INSERT INTO medications
add_medication(ms, times, schedule_mode, periods, doses) ==
    LET id == Cardinality(DOMAIN ms) + 1
    IN  [m \in DOMAIN ms \cup {id} |->
            IF m = id
            THEN [times |-> times, is_active |-> TRUE, paused_until |-> NULL,
                  schedule_mode |-> schedule_mode, periods |-> periods,
                  doses_per_day |-> doses]
            ELSE ms[m]]

\* update_medication_schedule with every column it sets
UpdateSchedule(ms, med_id, times, schedule_mode, periods, doses) ==
    [ms EXCEPT ![med_id].times = times,
               ![med_id].schedule_mode = schedule_mode,
               ![med_id].periods = periods,
               ![med_id].doses_per_day = doses]

\* line 955: periods is data["periods"] in period mode, None otherwise
\* (None is kept as the empty sequence)
FinalizePeriods(data) ==
    IF data.schedule_mode = "period" THEN data.periods ELSE <<>>

\* finalize_medication_entry up to its first answer: data["name"] raises
\* KeyError on cleared data; schedule_mode defaults to exact
finalize_medication_entry(data, ms, ins, clock) ==
    IF data.name = "missing"
    THEN [meds |-> ms, intakes |-> ins, outcome |-> "crashed", task |-> <<>>]
    ELSE LET mode  == IF data.schedule_mode = "missing" THEN "exact"
                      ELSE data.schedule_mode
             doses == IF data.dose_count = NULL THEN Len(data.times)
                      ELSE data.dose_count
         IN  IF data.edit_med_id # 0
             THEN [meds |-> UpdateSchedule(ms, data.edit_med_id, data.times, mode,
                                           FinalizePeriods(data), doses),
                   intakes |-> clear_future_intakes(ins, data.edit_med_id, clock),
                   outcome |-> "updated",
                   task |-> <<Continuation("finish", "none", 0)>>]
             ELSE [meds |-> add_medication(ms, data.times, mode,
                                           FinalizePeriods(data), doses),
                   intakes |-> ins,
                   outcome |-> "added",
                   task |-> <<Continuation("to_state", "waiting_for_remind_before", 0)>>]

\* a step of the dialogue: an update of the user is handled
FlowStep(op, arg, outcome) ==
    /\ flow.steps < MaxFlowSteps
    /\ last' = Done(op, 0, arg, outcome, NoIntake)

\* cmd_add, state "*"
CmdAdd ==
    /\ FlowStep("add", 0, "ok")
    /\ flow' = [flow EXCEPT !.steps = @ + 1,
                            !.state = "waiting_for_name",
                            !.data = [(IF flow.state # "none" THEN EmptyData ELSE @)
                                         EXCEPT !.times = <<>>, !.periods = <<>>]]
    /\ UNCHANGED <<now, boot, meds, intakes, nextId, tick, METRICS, acted, hist>>
    /\ UNCHANGED <<sumvars, db, calc>>

\* cmd_cancel / handle_cancel_button, state "*"
HandleCancel ==
    /\ FlowStep("cancel", 0, IF flow.state = "none" THEN "nothing" ELSE "ok")
    /\ flow' = IF flow.state = "none"
               THEN [flow EXCEPT !.steps = @ + 1]
               ELSE [flow EXCEPT !.steps = @ + 1, !.state = "none", !.data = EmptyData]
    /\ UNCHANGED <<now, boot, meds, intakes, nextId, tick, METRICS, acted, hist>>
    /\ UNCHANGED <<sumvars, db, calc>>

\* callback_edit_medication: registered without a state, so it is called
\* only when no dialogue is open
CallbackEditMedication(med_id) ==
    /\ flow.state = "none"
    /\ med_id \in DOMAIN meds
    /\ FlowStep("edit_start", med_id, "ok")
    /\ flow' = [flow EXCEPT !.steps = @ + 1,
                            !.state = "waiting_for_times_per_day",
                            !.data = [EmptyData EXCEPT !.name = "set",
                                                       !.edit_med_id = med_id]]
    /\ UNCHANGED <<now, boot, meds, intakes, nextId, tick, METRICS, acted, hist>>
    /\ UNCHANGED <<sumvars, db, calc>>

\* add_med_name: the name is kept, the state is set after the answer
AddMedName(valid) ==
    /\ flow.state = "waiting_for_name"
    /\ FlowStep("name", 0, IF valid THEN "ok" ELSE "rejected")
    /\ flow' = IF valid
               THEN [flow EXCEPT !.steps = @ + 1, !.data.name = "set",
                                 !.tasks = Append(@, Continuation("to_state",
                                               "waiting_for_times_per_day", 0))]
               ELSE [flow EXCEPT !.steps = @ + 1]
    /\ UNCHANGED <<now, boot, meds, intakes, nextId, tick, METRICS, acted, hist>>
    /\ UNCHANGED <<sumvars, db, calc>>

\* add_med_times_per_day: the lists are emptied, the state is set after the
\* answer
AddMedTimesPerDay(count) ==
    /\ flow.state = "waiting_for_times_per_day"
    /\ FlowStep("count", count, IF count <= 0 \/ count > 10 THEN "rejected" ELSE "ok")
    /\ flow' = IF count <= 0 \/ count > 10
               THEN [flow EXCEPT !.steps = @ + 1]
               ELSE [flow EXCEPT !.steps = @ + 1,
                                 !.data.dose_count = count,
                                 !.data.times = <<>>,
                                 !.data.periods = <<>>,
                                 !.tasks = Append(@, Continuation("to_state",
                                               "waiting_for_schedule_type", 0))]
    /\ UNCHANGED <<now, boot, meds, intakes, nextId, tick, METRICS, acted, hist>>
    /\ UNCHANGED <<sumvars, db, calc>>

\* add_med_schedule_type: mode and state are set before the first answer
AddMedScheduleType(mode) ==
    /\ flow.state = "waiting_for_schedule_type"
    /\ FlowStep("mode", 0, IF mode \in {"exact", "period"} THEN mode ELSE "rejected")
    /\ flow' = IF mode \notin {"exact", "period"}
               THEN [flow EXCEPT !.steps = @ + 1]
               ELSE [flow EXCEPT !.steps = @ + 1,
                                 !.data.schedule_mode = mode,
                                 !.state = IF mode = "exact"
                                           THEN "waiting_for_exact_time"
                                           ELSE "waiting_for_day_period"]
    /\ UNCHANGED <<now, boot, meds, intakes, nextId, tick, METRICS, acted, hist>>
    /\ UNCHANGED <<sumvars, db, calc>>

\* add_exact_time: the time is appended as typed and normalized; the entry
\* is finalized in the same run when the list is full (data["dose_count"]
\* raises KeyError on cleared data)
AddExactTime(raw) ==
    /\ flow.state = "waiting_for_exact_time"
    /\ flow.steps < MaxFlowSteps
    /\ LET t    == normalize_time_input(raw)
           data == [flow.data EXCEPT !.times = Append(@, t)]
       IN  IF t = NULL
           THEN /\ flow' = [flow EXCEPT !.steps = @ + 1]
                /\ last' = Done("time", 0, 0, "rejected", NoIntake)
                /\ UNCHANGED <<meds, intakes>>
           ELSE IF data.dose_count = NULL
           THEN /\ flow' = [flow EXCEPT !.steps = @ + 1, !.data = data]
                /\ last' = Done("time", 0, t, "crashed", NoIntake)
                /\ UNCHANGED <<meds, intakes>>
           ELSE IF Len(data.times) < data.dose_count
           THEN /\ flow' = [flow EXCEPT !.steps = @ + 1, !.data = data]
                /\ last' = Done("time", 0, t, "more", NoIntake)
                /\ UNCHANGED <<meds, intakes>>
           ELSE LET f == finalize_medication_entry(data, meds, intakes, now)
                IN  /\ flow' = [flow EXCEPT !.steps = @ + 1, !.data = data,
                                            !.tasks = @ \o f.task]
                    /\ meds' = f.meds
                    /\ intakes' = f.intakes
                    /\ last' = Done("time", 0, t, f.outcome, NoIntake)
    /\ UNCHANGED <<now, boot, nextId, tick, METRICS, acted, hist>>
    /\ UNCHANGED <<sumvars, db, calc>>

\* add_period_time up to call.answer: the key and the preset's time are
\* appended together; `remaining` is computed from the handler's own copy
AddPeriodTime(key) ==
    /\ flow.state = "waiting_for_day_period"
    /\ FlowStep("period", 0, IF key \in DOMAIN DAY_PERIOD_PRESETS THEN "ok" ELSE "rejected")
    /\ flow' = IF key \notin DOMAIN DAY_PERIOD_PRESETS
               THEN [flow EXCEPT !.steps = @ + 1]
               ELSE LET data == [flow.data EXCEPT
                                    !.periods = Append(@, key),
                                    !.times = Append(@, DAY_PERIOD_PRESETS[key])]
                    IN  [flow EXCEPT !.steps = @ + 1, !.data = data,
                                     !.tasks = Append(@,
                                        IF data.dose_count = NULL
                                        THEN Continuation("crash", "none", 0)
                                        ELSE Continuation("period_tail", "none",
                                                 data.dose_count - Len(data.times)))]
    /\ UNCHANGED <<now, boot, meds, intakes, nextId, tick, METRICS, acted, hist>>
    /\ UNCHANGED <<sumvars, db, calc>>

\* update_user_remind_before: the value is clamped and stored
update_user_remind_before(us, user, minutes) ==
    [us EXCEPT ![user].remind_before_minutes =
                   IF minutes < 1 THEN 1 ELSE IF minutes > 180 THEN 180 ELSE minutes]

\* set_remind_before: digits are stored at once; the lists are emptied and
\* the state is set after the answer
SetRemindBefore(user, raw) ==
    /\ flow.state = "waiting_for_remind_before"
    /\ FlowStep("lead", user, IF raw = NULL THEN "rejected" ELSE "ok")
    /\ IF raw = NULL
       THEN /\ flow' = [flow EXCEPT !.steps = @ + 1]
            /\ UNCHANGED users
       ELSE /\ flow' = [flow EXCEPT !.steps = @ + 1,
                                    !.tasks = Append(@, Continuation("remind_tail",
                                                  "confirming_more", 0))]
            /\ users' = update_user_remind_before(users, user, raw)
    /\ UNCHANGED <<now, boot, meds, intakes, nextId, tick, METRICS, acted, hist>>
    /\ UNCHANGED <<SUMMARY_STATE, summary, sumhist, db, calc>>

\* add_more_medications: everything it does comes after call.answer
AddMoreMedications(choice) ==
    /\ flow.state = "confirming_more"
    /\ FlowStep("more", 0, choice)
    /\ flow' = [flow EXCEPT !.steps = @ + 1,
                            !.tasks = Append(@,
                               IF choice = "yes"
                               THEN Continuation("more_yes", "waiting_for_name", 0)
                               ELSE Continuation("finish", "none", 0))]
    /\ UNCHANGED <<now, boot, meds, intakes, nextId, tick, METRICS, acted, hist>>
    /\ UNCHANGED <<sumvars, db, calc>>

\* an answer returns and the suspended handler runs on: it sets the state
\* (add_med_name, add_med_times_per_day, the add branch of finalize), ends
\* the dialogue (the edit branch of finalize, add_more "no"), empties the
\* lists (set_remind_before, add_more "yes") or finishes add_period_time
FlowResume(i) ==
    /\ i \in 1 .. Len(flow.tasks)
    /\ LET c    == flow.tasks[i]
           rest == RemoveAt(flow.tasks, i)
       IN  CASE c.k = "to_state" ->
                  /\ flow' = [flow EXCEPT !.tasks = rest, !.state = c.to]
                  /\ last' = Done("resume", 0, 0, c.to, NoIntake)
                  /\ UNCHANGED <<meds, intakes>>
             [] c.k = "finish" ->
                  /\ flow' = [flow EXCEPT !.tasks = rest, !.state = "none",
                                          !.data = EmptyData]
                  /\ last' = Done("resume", 0, 0, "finished", NoIntake)
                  /\ UNCHANGED <<meds, intakes>>
             [] c.k = "remind_tail" ->
                  /\ flow' = [flow EXCEPT !.tasks = rest, !.state = c.to,
                                          !.data.times = <<>>,
                                          !.data.periods = <<>>,
                                          !.data.edit_med_id = 0]
                  /\ last' = Done("resume", 0, 0, c.to, NoIntake)
                  /\ UNCHANGED <<meds, intakes>>
             [] c.k = "more_yes" ->
                  /\ flow' = [flow EXCEPT !.tasks = rest, !.state = c.to,
                                          !.data.times = <<>>,
                                          !.data.periods = <<>>,
                                          !.data.name = "none",
                                          !.data.dose_count = NULL,
                                          !.data.schedule_mode = "none"]
                  /\ last' = Done("resume", 0, 0, c.to, NoIntake)
                  /\ UNCHANGED <<meds, intakes>>
             [] c.k = "crash" ->
                  /\ flow' = [flow EXCEPT !.tasks = rest]
                  /\ last' = Done("resume", 0, 0, "crashed", NoIntake)
                  /\ UNCHANGED <<meds, intakes>>
             [] c.k = "period_tail" /\ c.n > 0 ->
                  /\ flow' = [flow EXCEPT !.tasks = rest]
                  /\ last' = Done("resume", 0, c.n, "more", NoIntake)
                  /\ UNCHANGED <<meds, intakes>>
             [] c.k = "period_tail" /\ c.n <= 0 ->
                  LET f == finalize_medication_entry(flow.data, meds, intakes, now)
                  IN  /\ flow' = [flow EXCEPT !.tasks = rest \o f.task]
                      /\ meds' = f.meds
                      /\ intakes' = f.intakes
                      /\ last' = Done("resume", 0, c.n, f.outcome, NoIntake)
    /\ UNCHANGED <<now, boot, nextId, tick, METRICS, acted, hist>>
    /\ UNCHANGED <<sumvars, db, calc>>

-----------------------------------------------------------------------------
(* Preference and time helpers, evaluated on their own *)

\* a helper call: the function, its argument (kind, a, b), and, once it has
\* run, its value and the exception that left it
Call(fn, kind, a, b) ==
    [fn |-> fn, kind |-> kind, a |-> a, b |-> b, done |-> FALSE, out |-> 0,
     raised |-> "none"]

IdleCalc == Call("none", "none", 0, 0)

NoHelperCall == calc = IdleCalc

Return(c, out) == [c EXCEPT !.done = TRUE, !.out = out]
Raise(c, exc) == [c EXCEPT !.done = TRUE, !.raised = exc]

\* max(1, min(180, value))
ClampLead(value) == IF value < 1 THEN 1 ELSE IF value > 180 THEN 180 ELSE value

\* get_remind_before(user) for REMIND_BEFORE_MINUTES = default: the key is
\* absent (dict.get gives the default, which goes through int and the
\* clamp), or holds an integer, a text of digits, another text (int raises
\* ValueError) or None (int raises TypeError)
get_remind_before(kind, value, default) ==
    IF kind = "absent" THEN ClampLead(default)
    ELSE IF kind \in {"int", "digits"} THEN ClampLead(value)
    ELSE default

\* values of users.remind_before_minutes and of the configured default
StoredLeads ==
    {[kind |-> k, n |-> 0] : k \in {"absent", "null", "text"}}
        \cup {[kind |-> k, n |-> n] : k \in {"int", "digits"},
                                      n \in {-1, 0, 1, 10, 180, 181, 1000}}
ConfiguredLeads == {-5, 0, 1, 10, 180, 181, 600}

\* ZoneInfo(tz_name) for a name that is the key of a zone (a = its offset),
\* a well-formed key of no zone, or a key that is not a normalized relative
\* path ("/etc/localtime", "../UTC"), which ZoneInfo refuses with ValueError
ZoneInfo(kind, a) ==
    IF kind = "known" THEN [zone |-> a, raised |-> "none"]
    ELSE IF kind = "unknown" THEN [zone |-> 0, raised |-> "ZoneInfoNotFoundError"]
    ELSE [zone |-> 0, raised |-> "ValueError"]

\* the zone of DEFAULT_TZ_NAME
DEFAULT_ZONE == ZoneOffset

\* resolve_timezone: `if not tz_name`, then _load_zone under
\* `except ZoneInfoNotFoundError`
resolve_timezone(c) ==
    IF c.kind \in {"null", "empty"} THEN Return(c, DEFAULT_ZONE)
    ELSE LET z == ZoneInfo(c.kind, c.a)
         IN  IF z.raised = "none" THEN Return(c, z.zone)
             ELSE IF z.raised = "ZoneInfoNotFoundError" THEN Return(c, DEFAULT_ZONE)
             ELSE Raise(c, z.raised)

ZoneNameKinds == {"null", "empty", "known", "unknown", "malformed"}

\* a zone with daylight saving time, on a clock of DstDayLen slots a day:
\* standard offset DstStd; the wall clock is put forward by DstShift at wall
\* time SpringWall and put back by DstShift at wall time FallWall
DstDayLen == 4
DstStd == 1
DstShift == 1
SpringWall == 1 * DstDayLen + 1
FallWall == 3 * DstDayLen + 2
DstDates == 0 .. 4
DstTimes == 0 .. (DstDayLen - 1)

\* utcoffset of a wall time with fold = 0: a skipped wall time takes the
\* offset before the transition, a repeated one its first occurrence
UtcOffsetOfWall(w) ==
    IF w >= SpringWall + DstShift /\ w < FallWall THEN DstStd + DstShift ELSE DstStd

\* utcoffset of an instant
UtcOffsetOfInstant(u) ==
    IF u >= SpringWall - DstStd /\ u < FallWall - (DstStd + DstShift)
    THEN DstStd + DstShift ELSE DstStd

\* local_time_to_utc(target_date, time_str, zone) for the zone above
LocalTimeToUtcDst(target_date, t) ==
    LET w == target_date * DstDayLen + t IN w - UtcOffsetOfWall(w)

\* to_local that uses the standard offset the whole year
ToLocalStandardTime(u) == (u + DstStd) % DstDayLen

\* to_local(dt, zone).strftime("%H:%M") for the zone above
ToLocalTimeDst(u) == (u + UtcOffsetOfInstant(u)) % DstDayLen

\* the wall time the date and time name does not exist: the clock skips it
SkippedWallTime(target_date, t) ==
    LET w == target_date * DstDayLen + t
    IN  w >= SpringWall /\ w < SpringWall + DstShift

\* zone names stored for users: keys of zones and well-formed keys of no zone
ZoneNames ==
    {[key |-> "Europe/Moscow", kind |-> "known", zone |-> ZoneOffset],
     [key |-> "Asia/Tokyo", kind |-> "known", zone |-> ZoneOffset + DayLen],
     [key |-> "Mars/Base", kind |-> "unknown", zone |-> 0],
     [key |-> "Moon/Sea", kind |-> "unknown", zone |-> 0],
     [key |-> "", kind |-> "empty", zone |-> 0]}

\* the process has resolved no name yet: the cache of _load_zone is empty and
\* no warning was logged
NoZoneResolved ==
    [fn |-> "resolve_timezone", calls |-> 0, cache |-> {},
     warnings |-> [n \in {z.key : z \in ZoneNames} |-> 0],
     key |-> "", out |-> DEFAULT_ZONE, done |-> FALSE]

\* lines 150-152: lru_cache keeps the value of a call that returned; a call
\* that raised is not kept
LoadZoneCached(cache, name) ==
    IF name.key \in cache THEN [zone |-> name.zone, raised |-> "none", cache |-> cache]
    ELSE LET z == ZoneInfo(name.kind, name.zone)
         IN  [zone |-> z.zone, raised |-> z.raised,
              cache |-> IF z.raised = "none" THEN cache \cup {name.key} ELSE cache]

\* resolve_timezone(name), one more time in the life of the process
ResolveZone(name) ==
    /\ calc.fn = "resolve_timezone" /\ ~calc.done
    /\ calc.calls < MaxZoneCalls
    /\ calc' = IF name.kind = "empty"
               THEN [calc EXCEPT !.calls = @ + 1, !.key = name.key,
                                 !.out = DEFAULT_ZONE]
               ELSE LET z == LoadZoneCached(calc.cache, name)
                    IN  IF z.raised = "none"
                        THEN [calc EXCEPT !.calls = @ + 1, !.key = name.key,
                                          !.cache = z.cache, !.out = z.zone]
                        ELSE [calc EXCEPT !.calls = @ + 1, !.key = name.key,
                                          !.warnings[name.key] = @ + 1,
                                          !.out = DEFAULT_ZONE]
    /\ UNCHANGED <<enginevars, sumvars, db, flow>>

\* get_remind_before is called
CalcRemindBefore ==
    /\ calc.fn = "get_remind_before" /\ ~calc.done
    /\ calc' = Return(calc, get_remind_before(calc.kind, calc.a, calc.b))
    /\ UNCHANGED <<enginevars, sumvars, db, flow>>

\* resolve_timezone is called
CalcResolveTimezone ==
    /\ calc.fn = "resolve_timezone" /\ ~calc.done
    /\ calc' = resolve_timezone(calc)
    /\ UNCHANGED <<enginevars, sumvars, db, flow>>

\* local_time_to_utc, then to_local of its result
CalcRoundTrip ==
    /\ calc.fn = "round_trip" /\ ~calc.done
    /\ calc' = Return(calc, ToLocalTimeDst(LocalTimeToUtcDst(calc.a, calc.b)))
    /\ UNCHANGED <<enginevars, sumvars, db, flow>>

-----------------------------------------------------------------------------
(* The specification *)

\* Spec, SpecEve, SpecTwoMeds and SpecSummary follow no db_query call, no
\* dialogue and no helper call
NoAux == NoStorageCall /\ NoDialogue /\ NoHelperCall

Init ==
    /\ boot \in BootSlots
    /\ now = boot
    /\ meds \in [MedIds -> [times : Schedules, is_active : {TRUE},
                            paused_until : {NULL}]]
    /\ intakes = {}
    /\ nextId = 1
    /\ tick = [IdleTick EXCEPT !.pc = "ready"]
    /\ METRICS = [reminders_sent |-> 0, reminders_failed |-> 0,
                  intakes_marked |-> 0, snoozes |-> 0, missed |-> 0]
    /\ last = Done("init", 0, 0, "ok", NoIntake)
    /\ acted = 0
    /\ hist = NoHistory
    /\ NoSummaryLoop
    /\ NoAux

Next ==
    \/ Advance
    \/ TickStart
    \/ \E ok \in BOOLEAN : ResumeNotified(ok)
    \/ ReminderSent
    \/ ReminderFailed
    \/ \E id \in 1 .. (nextId - 1) : CallbackTake(id)
    \/ \E id \in 1 .. (nextId - 1), minutes \in SNOOZE_CUSTOM_OPTIONS :
           CallbackSnoozeOption(id, minutes)
    \/ \E id \in 1 .. (nextId - 1) : CallbackSkip(id)
    \/ \E med_id \in DOMAIN meds, times \in Schedules : FinalizeEdit(med_id, times)
    \/ \E med_id \in DOMAIN meds, delta \in PAUSE_DURATION_OPTIONS :
           CallbackPauseMed(med_id, delta)
    \/ \E med_id \in DOMAIN meds : CallbackResumeMed(med_id)

Spec == Init /\ [][Next]_vars

\* the process starts in the last slot of a local day: the second tick runs
\* after local midnight
InitEve ==
    /\ boot = DayLen
    /\ now = boot
    /\ meds \in [MedIds -> [times : Schedules, is_active : {TRUE},
                            paused_until : {NULL}]]
    /\ intakes = {}
    /\ nextId = 1
    /\ tick = [IdleTick EXCEPT !.pc = "ready"]
    /\ METRICS = [reminders_sent |-> 0, reminders_failed |-> 0,
                  intakes_marked |-> 0, snoozes |-> 0, missed |-> 0]
    /\ last = Done("init", 0, 0, "ok", NoIntake)
    /\ acted = 0
    /\ hist = NoHistory
    /\ NoSummaryLoop
    /\ NoAux

SpecEve == InitEve /\ [][Next]_vars

\* the user has two medications
TwoMedIds == {1, 2}

InitTwoMeds ==
    /\ boot \in BootSlots
    /\ now = boot
    /\ meds \in [TwoMedIds -> [times : Schedules, is_active : {TRUE},
                               paused_until : {NULL}]]
    /\ intakes = {}
    /\ nextId = 1
    /\ tick = [IdleTick EXCEPT !.pc = "ready"]
    /\ METRICS = [reminders_sent |-> 0, reminders_failed |-> 0,
                  intakes_marked |-> 0, snoozes |-> 0, missed |-> 0]
    /\ last = Done("init", 0, 0, "ok", NoIntake)
    /\ acted = 0
    /\ hist = NoHistory
    /\ NoSummaryLoop
    /\ NoAux

\* the tick, with every reminder delivered, and the handlers that delete
\* intakes or make them Taken
NextTwoMeds ==
    \/ Advance
    \/ TickStart
    \/ \E ok \in BOOLEAN : ResumeNotified(ok)
    \/ ReminderSent
    \/ \E id \in 1 .. (nextId - 1) : CallbackTake(id)
    \/ \E med_id \in DOMAIN meds, times \in Schedules : FinalizeEdit(med_id, times)
    \/ \E med_id \in DOMAIN meds, delta \in PAUSE_DURATION_OPTIONS :
           CallbackPauseMed(med_id, delta)
    \/ \E med_id \in DOMAIN meds : CallbackResumeMed(med_id)

SpecTwoMeds == InitTwoMeds /\ [][NextTwoMeds]_vars

\* the intakes an earlier tick created for medication m from the times
\* <<0, 1>>, for the local day of the start and the next
SeedIntakes(m, start) ==
    {NewIntake((m - 1) * 2 * DayLen + d * DayLen + t + 1, m,
               local_time_to_utc(get_local_today(start) + d, t),
               local_time_to_utc(get_local_today(start) + d, t) - REMIND_BEFORE_MINUTES) :
        d \in {0, 1}, t \in {0, 1}}

\* the summary loop with two medications, either of which may have no intake
\* in the store at present; the process starts in the slot before the summary
\* hour
InitSummary ==
    /\ boot = DayLen - ZoneOffset + 2 * DayLen
    /\ now = boot
    /\ meds = [m \in TwoMedIds |-> [times |-> <<0, 1>>, is_active |-> TRUE,
                                      paused_until |-> NULL]]
    /\ \E seeded \in SUBSET TwoMedIds :
           intakes = UNION {SeedIntakes(m, boot) : m \in seeded}
    /\ nextId = 2 * 2 * DayLen + 1
    /\ tick = IdleTick
    /\ METRICS = [reminders_sent |-> 0, reminders_failed |-> 0,
                  intakes_marked |-> 0, snoozes |-> 0, missed |-> 0]
    /\ last = Done("init", 0, 0, "ok", NoIntake)
    /\ acted = 0
    /\ hist = NoHistory
    /\ users = [u \in UserIds |-> [timezone |-> ZoneOffset]]
    /\ SUMMARY_STATE = [u \in UserIds |-> NULL]
    /\ summary = [IdleSummary(1) EXCEPT !.pc = "ready"]
    /\ sumhist = [sent |-> {}, failed |-> {}]
    /\ NoAux

\* the clock moves; the reminder loop is left out
SummaryAdvance ==
    /\ now < boot + MaxElapsed
    /\ now' = now + 1
    /\ last' = Done("advance", 0, 0, "ok", NoIntake)
    /\ UNCHANGED <<boot, meds, intakes, nextId, tick, METRICS, acted, hist>>
    /\ UNCHANGED sumvars
    /\ UNCHANGED auxvars

NextSummary ==
    \/ SummaryAdvance
    \/ SummaryWake
    \/ SummaryTickStart
    \/ SummarySent
    \/ SummaryFailed
    \/ \E u \in UserIds, off \in ZoneOffsets : CmdTimezone(u, off)
    \/ \E id \in 1 .. (nextId - 1) : CallbackTake(id)
    \/ \E med_id \in DOMAIN meds, delta \in PAUSE_DURATION_OPTIONS :
           CallbackPauseMed(med_id, delta)
    \/ \E med_id \in DOMAIN meds : CallbackResumeMed(med_id)

SpecSummary == InitSummary /\ [][NextSummary]_vars

\* the summary loop and the /daily command over a store in which intakes
\* are only marked taken
NextDaily ==
    \/ SummaryAdvance
    \/ SummaryWake
    \/ SummaryTickStart
    \/ SummarySent
    \/ SummaryFailed
    \/ \E u \in UserIds : CmdDaily(u)
    \/ \E id \in 1 .. (nextId - 1) : CallbackTake(id)

SpecDaily == InitSummary /\ [][NextDaily]_vars

\* the store and the counters before the first tick
EngineAtRest ==
    /\ boot = DayLen + 1
    /\ now = boot
    /\ intakes = {}
    /\ nextId = 1
    /\ METRICS = [reminders_sent |-> 0, reminders_failed |-> 0,
                  intakes_marked |-> 0, snoozes |-> 0, missed |-> 0]
    /\ last = Done("init", 0, 0, "ok", NoIntake)
    /\ acted = 0
    /\ hist = NoHistory

\* calls of db_query, followed from line to line
InitDb ==
    /\ EngineAtRest
    /\ tick = IdleTick
    /\ meds = [m \in MedIds |-> [times |-> <<0, 1>>, is_active |-> TRUE,
                                   paused_until |-> NULL]]
    /\ NoSummaryLoop
    /\ db = IdleDb(0)
    /\ NoDialogue
    /\ NoHelperCall

NextDb ==
    \/ \E fetch \in {"one", "all", "none"} : DbCall(fetch)
    \/ \E err \in {"none", "OperationalError"} : DbEnsurePool(err)
    \/ \E err \in {"none", "OperationalError", "PoolError"} : DbGetconn(err)
    \/ \E err \in {"none"} \cup ConnectionErrors \cup {"ProgrammingError"} :
           DbExecute(err)

SpecDb == InitDb /\ [][NextDb]_vars

\* the dialogue of a user who has one medication stored
InitFlow ==
    /\ EngineAtRest
    /\ tick = IdleTick
    /\ meds = [m \in MedIds |-> [times |-> <<0, 1>>, is_active |-> TRUE,
                                   paused_until |-> NULL, schedule_mode |-> "exact",
                                   periods |-> <<>>, doses_per_day |-> 2]]
    /\ users = [u \in UserIds |-> [timezone |-> ZoneOffset,
                                     remind_before_minutes |-> 10]]
    /\ SUMMARY_STATE = [u \in UserIds |-> NULL]
    /\ summary = IdleSummary(0)
    /\ sumhist = [sent |-> {}, failed |-> {}]
    /\ NoStorageCall
    /\ flow = IdleFlow
    /\ NoHelperCall

NextFlow ==
    \/ CmdAdd
    \/ HandleCancel
    \/ \E med_id \in DOMAIN meds : CallbackEditMedication(med_id)
    \/ \E valid \in BOOLEAN : AddMedName(valid)
    \/ \E count \in 0 .. MaxDoses : AddMedTimesPerDay(count)
    \/ \E mode \in {"exact", "period", "other"} : AddMedScheduleType(mode)
    \/ \E raw \in RawTimes : AddExactTime(raw)
    \/ \E key \in DOMAIN DAY_PERIOD_PRESETS \cup {"unknown"} : AddPeriodTime(key)
    \/ \E u \in UserIds, raw \in {NULL, 10, 600} : SetRemindBefore(u, raw)
    \/ \E choice \in {"yes", "no"} : AddMoreMedications(choice)
    \/ \E i \in 1 .. Len(flow.tasks) : FlowResume(i)

SpecFlow == InitFlow /\ [][NextFlow]_vars

\* one call of a helper, for each argument
InitCalc ==
    /\ EngineAtRest
    /\ tick = IdleTick
    /\ meds = [m \in MedIds |-> [times |-> <<0, 1>>, is_active |-> TRUE,
                                   paused_until |-> NULL]]
    /\ NoSummaryLoop
    /\ NoStorageCall
    /\ NoDialogue
    /\ \/ \E v \in StoredLeads, d \in ConfiguredLeads :
              calc = Call("get_remind_before", v.kind, v.n, d)
       \/ \E k \in ZoneNameKinds, off \in ZoneOffsets :
              calc = Call("resolve_timezone", k, IF k = "known" THEN off ELSE 0, 0)
       \/ \E d \in DstDates, t \in DstTimes : calc = Call("round_trip", "dst", d, t)

NextCalc ==
    \/ CalcRemindBefore
    \/ CalcResolveTimezone
    \/ CalcRoundTrip

SpecCalc == InitCalc /\ [][NextCalc]_vars

\* both loops, with faults; the store is written by the tick only
InitLoops ==
    /\ EngineAtRest
    /\ tick = [IdleTick EXCEPT !.pc = "ready"]
    /\ meds \in [MedIds -> [times : Schedules, is_active : {TRUE},
                            paused_until : {NULL}]]
    /\ users = [u \in UserIds |-> [timezone |-> ZoneOffset]]
    /\ SUMMARY_STATE = [u \in UserIds |-> NULL]
    /\ summary = [IdleSummary(1) EXCEPT !.pc = "ready"]
    /\ sumhist = [sent |-> {}, failed |-> {}]
    /\ NoAux

NextLoops ==
    \/ Advance
    \/ TickStart
    \/ ReminderSent
    \/ ReminderFailed
    \/ TickFault
    \/ \E ok \in BOOLEAN : TickAlerted(ok)
    \/ SummaryWake
    \/ SummaryTickStart
    \/ SummarySent
    \/ SummaryFailed
    \/ SummaryFault
    \/ \E ok \in BOOLEAN : SummaryAlerted(ok)

\* an await returns in the end: the clock moves on, asyncio.sleep elapses
\* and the send_message of notify_admin returns or raises
SpecLoops ==
    /\ InitLoops
    /\ [][NextLoops]_vars
    /\ WF_vars(Advance)
    /\ WF_vars(SummaryWake)
    /\ WF_vars(\E ok \in BOOLEAN : TickAlerted(ok))
    /\ WF_vars(\E ok \in BOOLEAN : SummaryAlerted(ok))

\* two medications, the second with two different times a day
InitTwoMedsFail == InitTwoMeds /\ meds[2].times = <<0, 1>>

\* reminders and notices that can fail, pauses
NextTwoMedsFail ==
    \/ Advance
    \/ TickStart
    \/ \E ok \in BOOLEAN : ResumeNotified(ok)
    \/ ReminderSent
    \/ ReminderFailed
    \/ \E med_id \in DOMAIN meds, delta \in PAUSE_DURATION_OPTIONS :
           CallbackPauseMed(med_id, delta)

SpecTwoMedsFail == InitTwoMedsFail /\ [][NextTwoMedsFail]_vars

\* two medications the owner paused before the loop's first tick, both
\* pauses over when it runs
InitTwoPaused ==
    /\ boot \in BootSlots
    /\ now = boot
    /\ meds \in [TwoMedIds -> [times : {<<1, 1>>}, is_active : {FALSE},
                               paused_until : {boot}]]
    /\ intakes = {}
    /\ nextId = 1
    /\ tick = [IdleTick EXCEPT !.pc = "ready"]
    /\ METRICS = [reminders_sent |-> 0, reminders_failed |-> 0,
                  intakes_marked |-> 0, snoozes |-> 0, missed |-> 0]
    /\ last = Done("init", 0, 0, "ok", NoIntake)
    /\ acted = 0
    /\ hist = NoHistory
    /\ NoSummaryLoop
    /\ NoAux

\* auto-resume and the reminders, with the owner pausing and resuming
NextTwoPaused ==
    \/ Advance
    \/ TickStart
    \/ \E ok \in BOOLEAN : ResumeNotified(ok)
    \/ ReminderSent
    \/ \E med_id \in DOMAIN meds, delta \in PAUSE_DURATION_OPTIONS :
           CallbackPauseMed(med_id, delta)
    \/ \E med_id \in DOMAIN meds : CallbackResumeMed(med_id)

SpecTwoPaused == InitTwoPaused /\ [][NextTwoPaused]_vars

\* every operation that writes is_active or paused_until, and the tick
NextToggle ==
    \/ NextTwoPaused
    \/ \E med_id \in DOMAIN meds : CallbackToggleMedication(med_id)

SpecToggle == InitTwoMedsFail /\ [][NextToggle]_vars

\* the intakes of medication m after a tick at `start` delivered the
\* reminders that were due
SeedDelivered(m, start) ==
    {IF DeliveryDue(r, 0, start)
     THEN Read(ReminderBookkeeping({r}, r.id, start)) ELSE r :
        r \in SeedIntakes(m, start)}

\* two medications whose reminders of the day have been delivered; the
\* handlers of the buttons, an edit and a deletion
InitLookup ==
    /\ boot = DayLen + 1
    /\ now = boot
    /\ meds = [m \in TwoMedIds |-> [times |-> <<0, 1>>, is_active |-> TRUE,
                                      paused_until |-> NULL]]
    /\ intakes = UNION {SeedDelivered(m, boot) : m \in TwoMedIds}
    /\ nextId = 2 * 2 * DayLen + 1
    /\ tick = IdleTick
    /\ METRICS = [reminders_sent |-> 2 * 2, reminders_failed |-> 0,
                  intakes_marked |-> 0, snoozes |-> 0, missed |-> 0]
    /\ last = Done("init", 0, 0, "ok", NoIntake)
    /\ acted = 0
    /\ hist = NoHistory
    /\ NoSummaryLoop
    /\ NoAux

NextLookup ==
    \/ \E id \in 1 .. (nextId - 1) : CallbackTake(id)
    \/ \E id \in 1 .. (nextId - 1), minutes \in SNOOZE_CUSTOM_OPTIONS :
           CallbackSnoozeOption(id, minutes)
    \/ \E id \in 1 .. (nextId - 1) : CallbackSkip(id)
    \/ \E med_id \in DOMAIN meds, times \in Schedules : FinalizeEdit(med_id, times)
    \/ \E med_id \in DOMAIN meds, cascade \in BOOLEAN :
           CallbackDeleteConfirm(med_id, cascade)

SpecLookup == InitLookup /\ [][NextLookup]_vars

\* the tick and the handlers that make an intake Taken or set its reminder
NextTakeAll ==
    \/ Advance
    \/ TickStart
    \/ ReminderSent
    \/ ReminderFailed
    \/ \E id \in 1 .. (nextId - 1) : CallbackTake(id)
    \/ \E id \in 1 .. (nextId - 1), minutes \in SNOOZE_CUSTOM_OPTIONS :
           CallbackSnoozeOption(id, minutes)
    \/ \E id \in 1 .. (nextId - 1) : CallbackSkip(id)
    \/ \E med_id \in DOMAIN meds : CallbackTakeAll(med_id)

SpecTakeAll == Init /\ [][NextTakeAll]_vars

\* the same steps, with the second tick after local midnight
SpecEveTakeAll == InitEve /\ [][NextTakeAll]_vars

\* a store with one intake of the medication, in any condition its columns
\* allow: ensure_intake_record is called on it, alone and by the tick
StoredRows ==
    {[NewIntake(1, 1, s, n) EXCEPT
         !.taken = f[1], !.taken_at = IF f[1] THEN DayLen + 1 ELSE NULL,
         !.reminders_paused = f[2],
         !.reminder_sent = f[3], !.last_reminder_at = IF f[3] THEN DayLen + 1 ELSE NULL] :
       s \in {DayLen + 1, DayLen + 2}, n \in {NULL, DayLen, DayLen + 1},
       f \in [1 .. 3 -> BOOLEAN]}

InitEnsure ==
    /\ boot = DayLen + 1
    /\ now = boot
    /\ meds = [m \in MedIds |-> [times |-> <<0, 1>>, is_active |-> TRUE,
                                   paused_until |-> NULL]]
    /\ \E row \in StoredRows : intakes = {row}
    /\ nextId = 2
    /\ tick = [IdleTick EXCEPT !.pc = "ready"]
    /\ METRICS = [reminders_sent |-> 0, reminders_failed |-> 0,
                  intakes_marked |-> 0, snoozes |-> 0, missed |-> 0]
    /\ last = Done("init", 0, 0, "ok", NoIntake)
    /\ acted = 0
    /\ hist = NoHistory
    /\ NoSummaryLoop
    /\ NoAux

\* one call of ensure_intake_record for the medication
EnsureCall(scheduled_dt, default_reminder_at) ==
    /\ last.op = "init"
    /\ LET found == RowsOf(intakes, 1, scheduled_dt)
           e     == ensure_intake_record(intakes, nextId, 1, scheduled_dt,
                                         default_reminder_at)
       IN  /\ intakes' = e.intakes
           /\ nextId' = e.nextId
           /\ last' = IF found = {}
                      THEN Done("ensure", 0, default_reminder_at, "inserted", NoIntake)
                      ELSE Done("ensure", Read(found).id, default_reminder_at, "found",
                                Read(found))
    /\ UNCHANGED <<now, boot, meds, tick, METRICS, acted, hist>>
    /\ UNCHANGED sumvars
    /\ UNCHANGED auxvars

NextEnsure ==
    \/ \E s \in {DayLen + 1, DayLen + 2}, d \in {NULL, DayLen, DayLen + 1} :
           EnsureCall(s, d)
    \/ Advance
    \/ TickStart
    \/ ReminderSent

SpecEnsure == InitEnsure /\ [][NextEnsure]_vars

\* resolve_timezone called again and again in one process
InitZone ==
    /\ EngineAtRest
    /\ tick = IdleTick
    /\ meds = [m \in MedIds |-> [times |-> <<0, 1>>, is_active |-> TRUE,
                                   paused_until |-> NULL]]
    /\ NoSummaryLoop
    /\ NoStorageCall
    /\ NoDialogue
    /\ calc = NoZoneResolved

NextZone == \E name \in ZoneNames : ResolveZone(name)

SpecZone == InitZone /\ [][NextZone]_vars

-----------------------------------------------------------------------------
(* Properties *)

\* the step just taken belongs to the tick and ends suspended on the
\* send_message of a reminder: a delivery attempt starts in this step
DeliveryStarts == last'.op \in TickSteps /\ tick'.pc = "remind_send"

\* C1 (as claimed): a write of Acknowledge, Snooze, Skip or of the tick's
\* bookkeeping never changes an intake that is Taken when the write is made
C1_WritesGuardedByTaken ==
    [][\A r \in intakes :
          (r.taken /\ last'.op \in {"take", "snoozeopt", "skip", "reminder_sent"})
              => r \in intakes']_vars

\* C2: no two intake rows share (medication_id, scheduled_at), and
\* ensure_intake_record on a pair that has a row returns that row and inserts
\* nothing, for each default the tick can pass (none, the clamped one, the
\* lead-time one)
C2_OneRowPerOccurrence ==
    /\ \A r1, r2 \in intakes :
          (r1.medication_id = r2.medication_id /\ r1.scheduled_at = r2.scheduled_at)
              => r1 = r2
    /\ \A r \in intakes :
          \A dflt \in {NULL, now, r.scheduled_at - REMIND_BEFORE_MINUTES} :
              LET e == ensure_intake_record(intakes, nextId, r.medication_id,
                                            r.scheduled_at, dflt)
              IN  /\ e.row.id = r.id
                  /\ Existing(e.intakes) = Existing(intakes)
                  /\ e.nextId = nextId

\* a tick has just run to its end without sending anything, over a row of
\* today that an earlier tick had created and delivered
C2_Witness ==
    /\ last.op = "tick_start"
    /\ tick.pc = "sleep"
    /\ \E r \in intakes :
          /\ r.reminder_sent
          /\ meds[r.medication_id].is_active
          /\ to_local_date(r.scheduled_at) = get_local_today(now)
          /\ \E i \in DOMAIN meds[r.medication_id].times :
                meds[r.medication_id].times[i] = to_local_time(r.scheduled_at)

OnLocalDay(ins, med_id, day) ==
    {r \in ins : r.medication_id = med_id /\ to_local_date(r.scheduled_at) = day}

\* C3 (as claimed), for behaviours without any user action and ticks during
\* which the clock does not move: when a tick ends, every active medication
\* has exactly Len(times) intakes today and Len(times) tomorrow; a tick that
\* runs when tomorrow's intakes exist already creates no intake and changes
\* only intakes whose reminder is due
C3_TickMaterializesAndIsIdempotent ==
    [][(/\ acted = 0
        /\ last'.op \in TickSteps
        /\ (tick.pc = "ready" \/ tick.now_utc = now))
          => /\ tick'.pc = "sleep" =>
                  \A m \in DOMAIN meds : \A off \in {0, 1} :
                      Cardinality(OnLocalDay(intakes', m, get_local_today(now) + off))
                          = Len(meds[m].times)
             /\ (\A m \in DOMAIN meds :
                    OnLocalDay(intakes, m, get_local_today(now) + 1) # {})
                  => /\ Existing(intakes') = Existing(intakes)
                     /\ \A r \in intakes :
                           ~DeliveryDue(r, 0, now) => r \in intakes']_vars

\* C4: Acknowledge on a Taken intake answers "already taken" and changes
\* neither the store nor the counters
C4_SecondAcknowledgeIsNoOp ==
    [][\A r \in intakes :
          (last'.op = "take" /\ last'.id = r.id /\ r.taken)
              => /\ last'.outcome = "already_taken"
                 /\ intakes' = intakes
                 /\ METRICS' = METRICS]_vars

\* the second Acknowledge of an intake has been answered
C4_Witness ==
    /\ last.op = "take"
    /\ last.outcome = "already_taken"
    /\ last.intake.taken
    /\ METRICS.intakes_marked = 1
    /\ last.intake \in intakes

\* C5 (as claimed): Skip on a Taken intake changes no field of it
C5_SkipOnTakenRejected ==
    [][\A r \in intakes :
          (last'.op = "skip" /\ last'.id = r.id /\ r.taken) => intakes' = intakes]_vars

\* C6: choosing a snooze interval for a Taken intake is rejected:
\* next_reminder_at is and stays null, the store and the snoozes counter are
\* unchanged
C6_SnoozeOnTakenRejected ==
    [][\A r \in intakes :
          (last'.op = "snoozeopt" /\ last'.id = r.id /\ r.taken)
              => /\ last'.outcome = "already_taken"
                 /\ r.next_reminder_at = NULL
                 /\ intakes' = intakes
                 /\ METRICS'.snoozes = METRICS.snoozes]_vars

\* a snooze interval was chosen for an intake taken before
C6_Witness ==
    /\ last.op = "snoozeopt"
    /\ last.outcome = "already_taken"
    /\ last.intake.taken
    /\ last.intake \in intakes
    /\ METRICS.snoozes = 0

\* C7 (as claimed): once an occurrence (medication, scheduled_at) was
\* skipped, the tick starts no delivery for that occurrence unless it was
\* snoozed since, also after a schedule edit, pause or resume
C7_NoReminderForSkippedOccurrence ==
    [][DeliveryStarts =>
          \A s \in hist.skipped :
              ~(/\ s.medication_id = tick'.pending.medication_id
                /\ s.scheduled_at = tick'.pending.scheduled_at)]_vars

\* C7 (amended): Skip on a non-Taken intake leaves it with reminders_paused
\* set and next_reminder_at null, and the tick starts no delivery for that
\* intake row unless it was snoozed since
C7_NoReminderForSkippedRow ==
    /\ [][\A r \in intakes :
             (last'.op = "skip" /\ last'.id = r.id /\ ~r.taken)
                 => intakes' = (intakes \ {r}) \cup
                        {[r EXCEPT !.reminders_paused = TRUE,
                                   !.next_reminder_at = NULL]}]_vars
    /\ [][DeliveryStarts => \A s \in hist.skipped : s.id # tick'.pending.id]_vars
    /\ [][\A r \in intakes : \A r2 \in RowById(intakes', r.id) :
             (r.reminders_paused /\ (~r2.reminders_paused \/ r2.next_reminder_at # NULL))
                 => (last'.op = "snoozeopt" /\ last'.id = r.id)]_vars

\* a tick has run to its end over a skipped, untaken intake of today that is
\* still on the schedule, and has sent nothing
C7_Witness ==
    /\ last.op = "tick_start"
    /\ tick.pc = "sleep"
    /\ \E r \in intakes :
          /\ r.id \in {s.id : s \in hist.skipped}
          /\ r.reminders_paused
          /\ ~r.taken
          /\ r.next_reminder_at = NULL
          /\ meds[r.medication_id].is_active
          /\ to_local_date(r.scheduled_at) = get_local_today(now)
          /\ \E i \in DOMAIN meds[r.medication_id].times :
                meds[r.medication_id].times[i] = to_local_time(r.scheduled_at)

\* C8: Snooze(minutes) on a skipped, untaken intake clears reminders_paused
\* and sets next_reminder_at to now + minutes, a future instant; the row then
\* passes the tick's filter and is due once that instant is reached
C8_SnoozeOverridesSkip ==
    [][\A r \in intakes :
          (last'.op = "snoozeopt" /\ last'.id = r.id /\ r.reminders_paused /\ ~r.taken)
              => /\ last'.outcome = "snoozed"
                 /\ intakes' = (intakes \ {r}) \cup
                        {[r EXCEPT !.reminders_paused = FALSE,
                                   !.next_reminder_at = now + last'.arg]}
                 /\ \A r2 \in RowById(intakes', r.id) :
                        /\ r2.next_reminder_at > now
                        /\ ~DeliveryDue(r2, 0, now)
                        /\ DeliveryDue(r2, 0, r2.next_reminder_at)]_vars

\* a skipped intake has been snoozed
C8_Witness ==
    /\ last.op = "snoozeopt"
    /\ last.outcome = "snoozed"
    /\ last.intake.reminders_paused
    /\ \E r \in RowById(intakes, last.id) :
          ~r.reminders_paused /\ r.next_reminder_at = now + last.arg

\* C9: Acknowledge on a non-Taken intake sets taken, taken_at and clears
\* next_reminder_at, changes nothing else, and the tick starts no delivery for
\* a Taken intake
C9_AcknowledgeTakes ==
    /\ [][\A r \in intakes :
             (last'.op = "take" /\ last'.id = r.id /\ ~r.taken)
                 => /\ last'.outcome = "taken"
                    /\ intakes' = (intakes \ {r}) \cup
                           {[r EXCEPT !.taken = TRUE, !.taken_at = now,
                                      !.next_reminder_at = NULL]}]_vars
    /\ [][DeliveryStarts =>
             \A r \in RowById(intakes, tick'.pending.id) : ~r.taken]_vars
    /\ [][\A r \in intakes : r.taken =>
             \A r2 \in RowById(intakes', r.id) :
                 r2.taken /\ r2.next_reminder_at = NULL]_vars

\* a skipped intake has been acknowledged
C9_Witness ==
    /\ last.op = "take"
    /\ last.outcome = "taken"
    /\ last.intake.reminders_paused
    /\ ~last.intake.taken
    /\ \E r \in RowById(intakes, last.id) :
          r.taken /\ r.taken_at = now /\ r.next_reminder_at = NULL

\* C10: a successful delivery sets reminder_sent, sets last_reminder_at to the
\* tick's now_utc, clears next_reminder_at, changes no other field and adds
\* one to reminders_sent; no intake gets a second successful delivery without
\* a Snooze on it in between
C10_SuccessfulDelivery ==
    /\ [][last'.op = "reminder_sent" =>
             /\ METRICS' = [METRICS EXCEPT !.reminders_sent = @ + 1]
             /\ \A r \in RowById(intakes, tick.pending.id) :
                    [r EXCEPT !.reminder_sent = TRUE,
                              !.last_reminder_at = tick.now_utc,
                              !.next_reminder_at = NULL] \in intakes']_vars
    /\ [][last'.op = "reminder_sent" => tick.pending.id \notin hist.delivered]_vars

\* an intake delivered once and snoozed has been delivered a second time
C10_Witness ==
    /\ last.op = "reminder_sent"
    /\ last.intake.reminder_sent
    /\ METRICS.reminders_sent >= 2
    /\ METRICS.snoozes >= 1
    /\ \E r \in RowById(intakes, last.id) :
          r.reminder_sent /\ r.next_reminder_at = NULL /\ r.last_reminder_at = now

-----------------------------------------------------------------------------
(* Properties of the tick: failures, eligibility, defaults *)

\* now_utc and today_local of the check_and_send_reminders call the step
\* being taken belongs to
TickNow == IF tick.pc = "remind_send" THEN tick.now_utc ELSE now
TickToday == IF tick.pc = "remind_send" THEN tick.today ELSE get_local_today(now)

\* the step just taken is the last one of a tick
TickEnds == last'.op \in TickSteps /\ tick'.pc = "sleep"

\* C11: a failed delivery adds one to reminders_failed, leaves every other
\* counter alone and changes no field of the intake
C11_FailedDeliveryChangesNothing ==
    [][last'.op = "reminder_failed" =>
          /\ METRICS' = [METRICS EXCEPT !.reminders_failed = @ + 1]
          /\ \A r \in RowById(intakes, tick.pending.id) : r \in intakes']_vars

\* the delivery of a reminder has failed and the intake is as it was read
C11_Witness ==
    /\ last.op = "reminder_failed"
    /\ last.intake \in intakes
    /\ DeliveryDue(last.intake, 0, now)
    /\ METRICS.reminders_failed = 1
    /\ METRICS.reminders_sent = 0

\* C12 (as claimed), for behaviours without any user action: when a tick
\* ends, every intake whose last delivery failed, and that was not delivered
\* since, has been attempted by this very tick
C12_FailedDeliveryRetriedEveryTick ==
    [][(acted' = 0 /\ TickEnds) => \A f \in hist'.failed : f.at = TickNow]_vars

\* C13: a delivery is attempted only for an intake that is not taken, not
\* paused, has a next_reminder_at that the tick's now has reached, and belongs
\* to the tick's today (day_offset 0), never to a later local date
C13_DeliveryOnlyWhenEligible ==
    [][DeliveryStarts =>
          /\ tick'.d = 0
          /\ tick'.now_utc <= now'
          /\ RowById(intakes', tick'.pending.id) = {tick'.pending}
          /\ \A r \in RowById(intakes', tick'.pending.id) :
                /\ ~r.taken
                /\ ~r.reminders_paused
                /\ r.next_reminder_at # NULL
                /\ r.next_reminder_at <= tick'.now_utc
                /\ to_local_date(r.scheduled_at) = tick'.today
                /\ to_local_date(r.scheduled_at) <= get_local_today(now')]_vars

\* a tick has ended; an intake of tomorrow exists whose default reminder
\* instant is reached, and it was not delivered
C13_Witness ==
    /\ last.op \in TickSteps
    /\ tick.pc = "sleep"
    /\ \E r \in intakes :
          /\ to_local_date(r.scheduled_at) = get_local_today(now) + 1
          /\ ~r.taken
          /\ ~r.reminders_paused
          /\ r.next_reminder_at # NULL
          /\ r.next_reminder_at <= now
          /\ ~r.reminder_sent

C17_FutureIntakesFollowCurrentTimes ==
    \A r \in intakes :
        (~r.taken /\ r.scheduled_at > now) =>
            \E i \in DOMAIN meds[r.medication_id].times :
                meds[r.medication_id].times[i] = to_local_time(r.scheduled_at)

-----------------------------------------------------------------------------
(* Properties of resume and of the bulk delete *)

\* the step just taken reactivated medication m from the tick
AutoResumed(m) ==
    /\ last'.op \in {"tick_start", "resume_notified"}
    /\ tick'.pc = "resume_send"
    /\ tick'.mi = m

\* the step just taken ran clear_future_intakes for medication m
BulkDeleteOf(m) ==
    \/ last'.op = "edit" /\ last'.id = m
    \/ last'.op = "resume" /\ last'.outcome = "ok" /\ last'.id = m
    \/ AutoResumed(m)

\* every time of day of m's schedule has an intake on `day` and on the next
Materialized(ins, ms, m, day) ==
    \A off \in {0, 1} : \A i \in DOMAIN ms[m].times :
        RowsOf(ins, m, local_time_to_utc(day + off, ms[m].times[i])) # {}

C16_BulkDeleteRemovesOnlyFutureUntaken ==
    [][\A m \in DOMAIN meds :
          BulkDeleteOf(m) =>
              /\ intakes' \subseteq intakes
              /\ \A r \in intakes :
                    r \notin intakes' <=>
                        (r.medication_id = m /\ ~r.taken /\ r.scheduled_at >= now)]_vars

\* a schedule edit or a resume has just deleted intakes of its medication;
\* a Taken future intake of it and a future untaken intake of the other
\* medication are still there
C16_Witness ==
    /\ last.op \in {"edit", "resume"}
    /\ last.outcome = "ok"
    /\ \E id \in 1 .. (nextId - 1) : id \notin Existing(intakes)
    /\ \E r \in intakes :
          r.medication_id = last.id /\ r.taken /\ r.scheduled_at >= now
    /\ \E r \in intakes :
          r.medication_id # last.id /\ ~r.taken /\ r.scheduled_at >= now

-----------------------------------------------------------------------------
(* Properties of the daily summary *)

\* the line the summary is to carry for medication m
LineOf(ins, m, today, off) ==
    [med |-> m,
     taken |-> Cardinality({r \in get_intakes_for_day(ins, m, today, off) : r.taken}),
     total |-> Cardinality(get_intakes_for_day(ins, m, today, off))]

\* C18 (as claimed): the summary tick delivers no summary for a (user, local
\* day) for which it has delivered one before, and starts no delivery while
\* the user's local hour is below SUMMARY_HOUR
C18_SummaryOncePerLocalDay ==
    [][/\ last'.op = "summary_sent" =>
              [user |-> summary.user, day |-> summary.today] \notin sumhist.sent
       /\ (last'.op = "summary_start" /\ summary'.pc = "send") =>
              local_hour(now, users[summary'.user].timezone) >= SUMMARY_HOUR]_vars

\* C19: SUMMARY_STATE changes only when a summary delivery succeeded, and
\* then to the day of that summary; as long as the user's local day is not
\* recorded, a summary tick that runs at or past the summary hour while an
\* active medication has an intake today starts a delivery again
C19_DayRecordedOnlyAfterDelivery ==
    /\ [][SUMMARY_STATE' # SUMMARY_STATE =>
             /\ last'.op = "summary_sent"
             /\ SUMMARY_STATE' = [SUMMARY_STATE EXCEPT ![summary.user] = summary.today]]_vars
    /\ [][last'.op \in {"summary_failed", "summary_start"} =>
             SUMMARY_STATE' = SUMMARY_STATE]_vars
    /\ [][last'.op = "summary_start" =>
             LET u     == last'.id
                 off   == users[u].timezone
                 today == local_date(now, off)
             IN  (/\ local_hour(now, off) >= SUMMARY_HOUR
                  /\ SUMMARY_STATE[u] # today
                  /\ \E m \in DOMAIN meds :
                        meds[m].is_active /\ get_intakes_for_day(intakes, m, today, off) # {})
                     => /\ summary'.pc = "send"
                        /\ summary'.user = u
                        /\ summary'.today = today]_vars

\* a summary delivery failed for this user and day, the day is not recorded,
\* and a later summary tick is delivering again
C19_Witness ==
    /\ last.op = "summary_start"
    /\ summary.pc = "send"
    /\ [user |-> summary.user, day |-> summary.today] \in sumhist.failed
    /\ SUMMARY_STATE[summary.user] # summary.today

\* C20 (as claimed): a summary the tick composes has exactly one line, with
\* the taken and total counts, for every medication of the user that has an
\* intake in the user's local today, active or paused; when there is such a
\* medication a delivery is started
C20_SummaryCoversEveryMedication ==
    [][(last'.op = "summary_start" /\ last'.outcome \in {"sending", "no_data"}) =>
          LET off      == users[last'.id].timezone
              today    == local_date(now, off)
              expected == {LineOf(intakes, m, today, off) :
                             m \in {x \in AllMedications(meds) :
                                      get_intakes_for_day(intakes, x, today, off) # {}}}
          IN  IF expected = {}
              THEN summary'.pc = "sleep"
              ELSE summary'.pc = "send" /\ summary'.lines = expected]_vars

-----------------------------------------------------------------------------
(* Storage access, loops and faults *)

\* C21: on InterfaceError or OperationalError db_query discards the pool and
\* tries once more with a pool made again; the query is executed at most
\* twice in a call; a connection error on the second attempt leaves db_query;
\* any other error leaves it at once, without a retry and with the pool kept
C21_DbQueryRetriesOnce ==
    [][(db.pc # "idle") =>
          /\ db'.executed <= 2
          /\ db'.attempt <= 1
          /\ (db'.err \in ConnectionErrors /\ db.attempt = 0) =>
                /\ db'.pc = "ensure"
                /\ db'.attempt = 1
                /\ ~db'.pool
                /\ db'.outcome = "running"
          /\ (db'.err \in ConnectionErrors /\ db.attempt = 1) =>
                /\ db'.pc = "idle"
                /\ db'.outcome = "raised"
          /\ (db'.err \in OtherErrors) =>
                /\ db'.pc = "idle"
                /\ db'.outcome = "raised"
                /\ db'.attempt = db.attempt
                /\ db'.pool = db.pool
                /\ db'.resets = db.resets
          /\ (db.pc = "ensure" /\ db'.err = "none") => db'.pool]_vars

\* a call has ended with a connection error after the query was executed
\* twice, on a pool made again for the second attempt
C21_Witness ==
    /\ db.pc = "idle"
    /\ db.outcome = "raised"
    /\ db.err \in ConnectionErrors
    /\ db.executed = 2
    /\ db.resets = 2

\* C22: no fault inside an iteration ends reminder_loop or
\* daily_summary_loop: the task never terminates, the step after the fault's
\* alert is the loop's sleep, and an iteration that faulted is followed by the
\* start of a next one (as long as the clock and the iteration count of the
\* model allow one)
C22_LoopsSurviveFaults ==
    /\ [](tick.pc # "dead" /\ summary.pc # "dead")
    /\ [][/\ tick.pc = "alert" => tick'.pc \in {"alert", "sleep"}
          /\ summary.pc = "alert" => summary'.pc \in {"alert", "sleep"}]_vars
    /\ (tick.pc = "alert") ~> (tick.pc = "ready" \/ now = boot + MaxElapsed)
    /\ (summary.pc = "alert") ~>
           (summary.pc = "ready" \/ summary.ticks = MaxSummaryTicks)

\* each loop has faulted and has started an iteration after its fault
C22_Witness ==
    /\ hist.faulted = {"reminder", "summary"}
    /\ hist.recovered = {"reminder", "summary"}
    /\ tick.pc # "dead"
    /\ summary.pc # "dead"

\* position (mi, d, ti) of the loops of check_and_send_reminders comes
\* before position (mj, e, tj)
Before(mi, d, ti, mj, e, tj) ==
    \/ mi < mj
    \/ mi = mj /\ d < e
    \/ mi = mj /\ d = e /\ ti < tj

\* C23: a reminder whose delivery failed does not end the tick: in the same
\* step every later time, day and medication of the tick's snapshot, up to
\* the next reminder that is due (or to the end), gets its intake, none that
\* is due is passed over, and no medication is changed; a medication the tick
\* has resumed stays active with no paused_until when its notice failed, and
\* the tick goes on to the next medication to resume or to the reminders
C23_DeliveryFailureDoesNotAbortTick ==
    [][/\ last'.op = "reminder_failed" =>
            /\ tick'.pc \in {"sleep", "remind_send"}
            /\ meds' = meds
            /\ tick'.pc = "remind_send" =>
                  Before(tick.mi, tick.d, tick.ti, tick'.mi, tick'.d, tick'.ti)
            /\ \A mi \in 1 .. Len(tick.snap) : \A d \in {0, 1} :
                  \A ti \in 1 .. Len(tick.snap[mi].times) :
                     (/\ Before(tick.mi, tick.d, tick.ti, mi, d, ti)
                      /\ \/ tick'.pc = "sleep"
                         \/ Before(mi, d, ti, tick'.mi, tick'.d, tick'.ti))
                        => LET today == IF mi = tick.mi THEN tick.today
                                        ELSE get_local_today(now)
                               rows  == RowsOf(intakes', tick.snap[mi].id,
                                               local_time_to_utc(today + d,
                                                   tick.snap[mi].times[ti]))
                           IN  /\ rows # {}
                               /\ \A r \in rows : ~DeliveryDue(r, d, tick.now_utc)
       /\ (last'.op = "resume_notified" /\ last'.outcome = "failed") =>
            /\ meds'[tick.mi] = meds[tick.mi]
            /\ tick.rows # <<>> =>
                  /\ tick'.pc = "resume_send"
                  /\ meds'[Head(tick.rows)].is_active
            /\ tick.rows = <<>> => tick'.pc \in {"sleep", "remind_send"}
       /\ last'.op \in TickSteps =>
            \A m \in hist'.unnotified \cap hist'.resumed :
               meds'[m].is_active /\ meds'[m].paused_until = NULL]_vars

\* the tick resumed a medication and could not deliver the notice; later in
\* the same tick a reminder of one medication failed and the step went on to
\* a reminder of the other medication
C23_Witness ==
    /\ last.op = "reminder_failed"
    /\ tick.pc = "remind_send"
    /\ tick.pending.medication_id # last.intake.medication_id
    /\ hist.unnotified # {}
    /\ \A m \in hist.unnotified : meds[m].is_active

\* the intake, the medication or the user a button handler looks up is absent
LookupFails(id) ==
    \/ RowById(intakes, id) = {}
    \/ \E r \in RowById(intakes, id) :
          \/ r.medication_id \notin DOMAIN meds
          \/ UserOf(r.medication_id) \notin DOMAIN users

\* C24: Acknowledge, Snooze or Skip on an id whose intake, medication or user
\* is absent answers not-found and changes no intake, no medication and no
\* counter
C24_NotFoundChangesNothing ==
    [][(last'.op \in {"take", "snoozeopt", "skip"} /\ LookupFails(last'.id)) =>
          /\ last'.outcome = "not_found"
          /\ intakes' = intakes
          /\ meds' = meds
          /\ METRICS' = METRICS]_vars

\* a button of an intake whose medication has been deleted was answered
\* not-found, with the intake still in the store
C24_Witness ==
    /\ last.op \in {"take", "snoozeopt", "skip"}
    /\ last.outcome = "not_found"
    /\ last.intake \in intakes
    /\ last.intake.medication_id \notin DOMAIN meds

\* C25: no stored medication has two entries of times with the same clock
\* time
C25_NoDuplicateClockTimes ==
    \A m \in DOMAIN meds :
       \A i, j \in 1 .. Len(meds[m].times) :
          i # j => meds[m].times[i] # meds[m].times[j]

\* C26: a stored medication with schedule_mode = period has as many periods
\* as times, and each time is the preset time of the period at its index
C26_PeriodsAlignedWithTimes ==
    \A m \in DOMAIN meds :
       meds[m].schedule_mode = "period" =>
          /\ Len(meds[m].periods) = Len(meds[m].times)
          /\ \A i \in 1 .. Len(meds[m].times) :
                meds[m].times[i] = DAY_PERIOD_PRESETS[meds[m].periods[i]]

\* C27: the lead time get_remind_before returns is between 1 and 180, for
\* every stored value and every configured default
C27_LeadTimeWithinBounds ==
    (calc.fn = "get_remind_before" /\ calc.done) => calc.out \in 1 .. 180

\* C28: resolve_timezone never raises, and returns the default zone for a
\* name that is null, empty or not the key of a zone
C28_ResolveTimezoneNeverRaises ==
    (calc.fn = "resolve_timezone" /\ calc.done) =>
       /\ calc.raised = "none"
       /\ calc.kind # "known" => calc.out = DEFAULT_ZONE

\* C29: local_time_to_utc followed by to_local gives back the time of day,
\* on every date before, between and after the two transitions of the zone
\* and for every wall time that exists on the dates of the transitions
C29_RoundTripKeepsLocalTime ==
    (calc.fn = "round_trip" /\ calc.done /\ ~SkippedWallTime(calc.a, calc.b)) =>
       calc.out = calc.b

\* a round trip on a date that lies wholly in daylight saving time
C29_Witness ==
    /\ calc.fn = "round_trip" /\ calc.done
    /\ calc.a * DstDayLen >= SpringWall + DstShift
    /\ (calc.a + 1) * DstDayLen <= FallWall
    /\ calc.out = calc.b

\* C30: in every state an intake that is taken has no next_reminder_at
C30_TakenHasNoReminder ==
    \A r \in intakes : r.taken => r.next_reminder_at = NULL

\* "mark all" took an intake whose reminder was still set, while the tick was
\* suspended in a send
C30_Witness ==
    /\ last.op = "take_all"
    /\ last.outcome = "taken"
    /\ last.intake.next_reminder_at # NULL
    /\ tick.pc = "remind_send"
    /\ \E r \in RowById(intakes, last.intake.id) :
          r.taken /\ r.next_reminder_at = NULL

\* the row nobody touched yet: not taken, not paused, no reminder sent, no
\* next_reminder_at
Untouched(r) ==
    ~r.taken /\ ~r.reminders_paused /\ ~r.reminder_sent /\ r.next_reminder_at = NULL

\* C31: ensure_intake_record on an existing row inserts nothing and changes
\* nothing, except that next_reminder_at of an untouched row becomes the
\* default; and no step of the tick gives a new next_reminder_at to a row that
\* is taken, skipped, or whose reminder was delivered
C31_EnsureLeavesExistingRow ==
    [][/\ (last'.op = "ensure" /\ last'.outcome = "found") =>
             LET r == last'.intake
             IN  /\ r \in intakes
                 /\ nextId' = nextId
                 /\ intakes' = IF Untouched(r)
                                THEN (intakes \ {r}) \cup
                                        {[r EXCEPT !.next_reminder_at = last'.arg]}
                                ELSE intakes
       /\ last'.op \in TickSteps =>
             \A r \in intakes : \A r2 \in RowById(intakes', r.id) :
                (r.taken \/ r.reminders_paused \/ r.reminder_sent) =>
                    r2.next_reminder_at \in {r.next_reminder_at, NULL}]_vars

\* the call found a row whose reminder had been delivered and left it as it
\* was, with no next_reminder_at, although a default was supplied
C31_Witness ==
    /\ last.op = "ensure"
    /\ last.outcome = "found"
    /\ last.arg # NULL
    /\ last.intake.reminder_sent
    /\ last.intake.next_reminder_at = NULL
    /\ last.intake \in intakes

\* C32: the warning for an unknown zone name is logged at most once for each
\* name, however often the name is resolved
C32_UnknownZoneWarnedOnce ==
    \A n \in DOMAIN calc.warnings : calc.warnings[n] <= 1

\* C33: a Snooze made on the intake while the tick was suspended in the send
\* of its reminder (the row's next_reminder_at is set and is not the one the
\* tick read) is still there after the tick's bookkeeping write
C33_SnoozeDuringDeliveryKept ==
    [][last'.op = "reminder_sent" =>
          \A r \in RowById(intakes, tick.pending.id) :
             (r.next_reminder_at # NULL
                 /\ r.next_reminder_at # tick.pending.next_reminder_at)
                => \A r2 \in RowById(intakes', r.id) :
                      r2.next_reminder_at = r.next_reminder_at]_vars

\* C34: when a tick ends with no delivery failed, no snoozed intake (its
\* reminder was sent once and next_reminder_at is set again) of an active
\* medication is left that is not taken, not skipped, and whose
\* next_reminder_at the tick's now has reached
C34_SnoozedReminderDelivered ==
    [][(TickEnds /\ hist'.failed = {}) =>
          \A r \in intakes' :
             (/\ r.reminder_sent
              /\ ~r.taken
              /\ ~r.reminders_paused
              /\ r.next_reminder_at # NULL
              /\ meds'[r.medication_id].is_active)
                => r.next_reminder_at > TickNow]_vars

\* C35: a step of the tick creates no intake for, and starts no delivery
\* of a reminder of, a medication that is deleted or not active when the
\* step is taken
C35_NothingForInactiveMedication ==
    [][last'.op \in TickSteps =>
          /\ \A r \in intakes' :
                r.id \notin Existing(intakes)
                   => r.medication_id \in get_user_medications(meds')
          /\ tick'.pc = "remind_send"
                => tick'.pending.medication_id \in get_user_medications(meds')]_vars

\* C36: auto-resume reactivates (and deletes the future intakes of) a
\* medication only if, when it writes, the medication's paused_until is set
\* and not later than now
C36_AutoResumeOnlyWhenPauseIsOver ==
    [][\A m \in DOMAIN meds :
          AutoResumed(m) => /\ meds[m].paused_until # NULL
                            /\ meds[m].paused_until <= now]_vars

\* the step just taken gave medication m a paused_until it did not have
SetsPausedUntil(m) ==
    /\ meds'[m].paused_until # NULL
    /\ meds'[m].paused_until # meds[m].paused_until

\* C37: an active medication never has a paused_until, and only a pause
\* of medication m gives m a paused_until
C37_ActiveHasNoPausedUntil ==
    /\ [](\A m \in DOMAIN meds : meds[m].is_active => meds[m].paused_until = NULL)
    /\ [][\A m \in DOMAIN meds :
             SetsPausedUntil(m) => last'.op = "pause" /\ last'.id = m]_vars

\* auto-resume has just reactivated a medication whose pause was over: it
\* is active with no paused_until
C37_Witness ==
    /\ \E m \in hist.resumed : meds[m].is_active /\ meds[m].paused_until = NULL
    /\ last.op = "resume_notified"

\* the intakes that the step just taken changed from not taken to taken
NewlyTaken ==
    {r \in intakes : ~r.taken /\ \E r2 \in RowById(intakes', r.id) : r2.taken}

\* C38: every step raises intakes_marked by exactly the number of intakes
\* it changed from not taken to taken (by none for an intake already taken)
C38_MarkedCountsEachTakenOnce ==
    [][METRICS'.intakes_marked = METRICS.intakes_marked + Cardinality(NewlyTaken)]_vars

\* while the tick is suspended on a delivery, mark-all-taken has marked the
\* one intake that an Acknowledge had left: the counter stands at two
C38_Witness ==
    /\ last.op = "take_all"
    /\ last.outcome = "taken"
    /\ last.arg = 1
    /\ METRICS.intakes_marked = 2
    /\ Cardinality({r \in intakes : r.taken}) = 2
    /\ tick.pc = "remind_send"

\* the doses of the local days that have begun for the user
DosesSoFar(u) ==
    {r \in intakes :
        local_date(r.scheduled_at, users[u].timezone)
           <= local_date(now, users[u].timezone)}

\* C39: each missed dose of a day is added to the missed counter at most
\* once, so the counter never exceeds the number of doses of the days so far
C39_MissedCountedOnce ==
    METRICS.missed <= Cardinality(UNION {DosesSoFar(u) : u \in UserIds})

\* C40: of the connections a call of db_query took from the pool, all but
\* the one it holds were given back once each, and it holds none when it
\* has returned or raised
C40_ConnectionGivenBackOnce ==
    /\ db.taken = db.given + (IF db.conn THEN 1 ELSE 0)
    /\ db.pc = "idle" => ~db.conn

\* a call whose two attempts each took a connection and lost it has raised
\* with both given back
C40_Witness ==
    /\ db.pc = "idle"
    /\ db.outcome = "raised"
    /\ db.err \in ConnectionErrors
    /\ db.taken = 2
    /\ db.given = 2

====
